---- MODULE Spec2Model ----
(***************************************************************************)
(* A model of the faker-file providers: ico_file, svg_file, ods_file,      *)
(* jpeg_file, webp_file, the reportlab snippets, and the parts the test    *)
(* suite exercises (storages, generator resolution, inner-file helpers).   *)
(* A provider call is one action; the statements of the call are composed  *)
(* inside it, an exception ending the call at the statement that raises.   *)
(***************************************************************************)
EXTENDS Integers, Sequences, FiniteSets, TLC

VARIABLES
    fs,       \* the local filesystem: absolute path -> bytes
    cloud,    \* the cloud-like (Pathy) medium: bucket path -> bytes
    draws,    \* per Faker generator: how many values it has produced
    last,     \* the last provider call: arguments and outcome
    ncalls,   \* provider calls made so far
    modules,  \* sys.modules: module path -> namespace (attribute -> object)
    providers \* per Faker generator: the provider classes added, latest first

vars == <<fs, cloud, draws, last, ncalls, modules, providers>>

\* ------------------------------------------------------------ bounds
MaxCalls == 2
MaxNames == 2

\* ------------------------------------------------------------ values
None == "None"

\* tempfile.gettempdir() and base.DEFAULT_REL_PATH, as the tests use them
TempDir == <<"tmp">>
DEFAULT_REL_PATH == <<"tmp">>

\* Random stems tempfile.NamedTemporaryFile may draw, by index
StemStr == <<"r1", "r2", "r3", "r4", "r5", "r6">>
Stems == 1..MaxNames

Name(prefix, stem, ext) == [prefix |-> prefix, stem |-> stem, ext |-> ext]
NoName == Name(None, None, None)
Path(dir, name) == [dir |-> dir, name |-> name]
NoPath == Path(<<>>, NoName)
RelPath(ups, dir, name) == [ups |-> ups, dir |-> dir, name |-> name]
NoRelPath == RelPath(0, <<>>, NoName)

\* Faker instances: the module-level one of ods_file.py and the tests' two
FAKER == "ods_file.FAKER"
TEST_FAKER == "tests.FAKER"
FAKER_HY == "tests.FAKER_HY"
Generators == {FAKER, TEST_FAKER, FAKER_HY}
Locale(g) == IF g = FAKER_HY THEN "hy_AM" ELSE "en_US"

\* Text or tabular content. kind: None | plain | template (as given by the
\* caller), text | json (produced by a generator: locale, n-th draw)
Content(kind, fmt, locale, n, cols, rows) ==
    [kind |-> kind, fmt |-> fmt, locale |-> locale, n |-> n,
     cols |-> cols, rows |-> rows]
NoContent == Content(None, None, None, 0, None, 0)
PlainContent == Content("plain", None, None, 0, None, 0)
TemplateContent == Content("template", None, None, 0, None, 0)

\* File bytes: what a converter made (fmt) out of what (of)
Bytes(fmt, of) == [fmt |-> fmt, of |-> of]
NoBytes == Bytes(None, NoContent)
BytesLen(b) == IF b.fmt = None THEN 0 ELSE 1 + (IF b.of.kind = None THEN 0 ELSE 1)

\* ------------------------------------------------------------ os.path
RECURSIVE CommonPrefixLen(_, _)
CommonPrefixLen(a, b) ==
    IF a = <<>> \/ b = <<>> \/ Head(a) # Head(b) THEN 0
    ELSE 1 + CommonPrefixLen(Tail(a), Tail(b))

\* os.path.relpath(path, start)
relpath(path, start) ==
    LET k == CommonPrefixLen(path.dir, start)
    IN RelPath(Len(start) - k, SubSeq(path.dir, k + 1, Len(path.dir)), path.name)

\* os.path.join(root, rel), normalised
join(root, rel) ==
    LET keep == IF rel.ups >= Len(root) THEN 0 ELSE Len(root) - rel.ups
    IN Path(SubSeq(root, 1, keep) \o rel.dir, rel.name)

\* ------------------------------------------------------------ storages
\* FileSystemStorage() and the tests' PathyFileSystemStorage(bucket_name="tmp",
\* rel_path="tmp"); NoStorage is the argument storage=None
Storage(kind, root, rel) == [kind |-> kind, root |-> root, rel |-> rel]
NoStorage == Storage(None, <<>>, <<>>)
FileSystemStorage == Storage("fs", TempDir, DEFAULT_REL_PATH)
FS_STORAGE == FileSystemStorage
PATHY_FS_STORAGE == Storage("pathy", <<"tmp">>, <<"tmp">>)
MEDIA_FS_STORAGE == Storage("fs", <<"srv", "media">>, <<"tmp">>)
StorageArgs == {NoStorage, FS_STORAGE, PATHY_FS_STORAGE}

\* The medium a storage keeps its files in
Medium(storage, fsys, cld) == IF storage.kind = "pathy" THEN cld ELSE fsys

\* storage.generate_filename(extension, prefix, basename): basename.extension
\* when a basename is given, else a random name (stem) new to the directory
generate_filename(storage, extension, prefix, basename, stem) ==
    Path(storage.root \o storage.rel,
         IF basename # None THEN Name(None, basename, extension)
                            ELSE Name(prefix, StemStr[stem], extension))

generate_temporary_local_filename_in_storage(storage, extension, prefix, stem) ==
    Path(storage.root \o storage.rel, Name(prefix, StemStr[stem], extension))

\* storage.generate_temporary_local_filename(extension, prefix): a random name
\* in the local temporary directory
generate_temporary_local_filename(storage, extension, prefix, stem) ==
    Path(TempDir, Name(prefix, StemStr[stem], extension))

\* storage.write_bytes(filename, data): outcome is "ok", the error raised
\* before anything was written, or PartialWrite: the error is raised part-way,
\* after the file was opened and some of the bytes were written
WriteError == "IOError"
PartialWrite == "IOError part-way"
Truncated(data) == [data EXCEPT !.of = NoContent]
write_bytes(storage, filename, data, fsys, cld, outcome) ==
    IF outcome \notin {"ok", PartialWrite} THEN [exc |-> outcome, fs |-> fsys, cloud |-> cld]
    ELSE LET written == IF outcome = "ok" THEN data ELSE Truncated(data)
             exc == IF outcome = "ok" THEN None ELSE WriteError
         IN IF storage.kind = "pathy"
            THEN [exc |-> exc, fs |-> fsys,
                  cloud |-> [p \in DOMAIN cld \cup {filename} |->
                               IF p = filename THEN written ELSE cld[p]]]
            ELSE [exc |-> exc, cloud |-> cld,
                  fs |-> [p \in DOMAIN fsys \cup {filename} |->
                               IF p = filename THEN written ELSE fsys[p]]]

\* storage.relpath(filename): the path relative to the storage's root
storage_relpath(storage, filename) == relpath(filename, storage.root)

\* storage.exists(filename) of a relative filename
exists(storage, rel, fsys, cld) ==
    join(storage.root, rel) \in DOMAIN Medium(storage, fsys, cld)

\* ------------------------------------------------------------ return values
\* StringValue (a path with .data) or BytesValue (bytes with .data)
Ret(kind, path, bytes, keys, content) ==
    [kind |-> kind, path |-> path, bytes |-> bytes,
     data_keys |-> keys, data_content |-> content]
NoRet == Ret(None, NoRelPath, NoBytes, {}, NoContent)
StringValue(path, keys, content) == Ret("StringValue", path, NoBytes, keys, content)
BytesValue(bytes, keys, content) == Ret("BytesValue", NoRelPath, bytes, keys, content)

\* What a call leaves behind: the media, the generators, the exception raised
\* (None when it returned), the value returned, the steps taken in order, how
\* often the converter ran, and the names the call generated
Outcome(fsys, cld, drw, exc, ret, events, conv_calls, filename, tmp_filename, storage) ==
    [fs |-> fsys, cloud |-> cld, draws |-> drw, exc |-> exc, ret |-> ret,
     events |-> events, conv_calls |-> conv_calls, filename |-> filename,
     tmp_filename |-> tmp_filename, storage |-> storage]

\* ------------------------------------------------------------ collaborators
\* FileMixin._generate_text_content(max_nb_chars, wrap_chars_after, content):
\* no content: a text drawn from the provider's generator; a template: its
\* dynamic elements replaced by values drawn from the provider's generator;
\* plain text: as given
_generate_text_content(self, content, drw) ==
    IF content.kind = "plain"
    THEN [content |-> content, draws |-> drw]
    ELSE [content |-> Content("text", IF content.kind = None THEN None ELSE "default",
                              Locale(self), drw[self] + 1, None, 0),
          draws |-> [drw EXCEPT ![self] = @ + 1]]

\* The callables that format template strings: the default of the provider
\* methods, and the one the tests pass
DEFAULT_FORMAT_FUNC == "default"
pystr_format_func == "pystr_format_func"
FormatFuncs == {DEFAULT_FORMAT_FUNC, pystr_format_func}

\* _generate_text_content(max_nb_chars, wrap_chars_after, content, format_func):
\* as above, the template's dynamic elements replaced by format_func
_generate_text_content_format_func(self, content, format_func, drw) ==
    IF content.kind = "plain"
    THEN [content |-> content, draws |-> drw]
    ELSE [content |-> Content("text", IF content.kind = None THEN None ELSE format_func,
                              Locale(self), drw[self] + 1, None, 0),
          draws |-> [drw EXCEPT ![self] = @ + 1]]

\* imgkit.from_string(html, output_path, options): renders the text into a file
\* of the output path's format, or raises (outcome is "ok" or the error)
imgkit_from_string(content, output_path, fsys, outcome) ==
    IF outcome # "ok" THEN [exc |-> outcome, fs |-> fsys]
    ELSE [exc |-> None,
          fs |-> [p \in DOMAIN fsys \cup {output_path} |->
                    IF p = output_path THEN Bytes(output_path.name.ext, content)
                    ELSE fsys[p]]]

open_read_nothing(path, fsys, outcome) ==
    IF outcome # "ok" THEN [exc |-> outcome, bytes |-> NoBytes]
    ELSE [exc |-> None, bytes |-> NoBytes]

\* open(path, "rb").read(): outcome is "ok" or the error raised
open_read(path, fsys, outcome) ==
    IF outcome # "ok" THEN [exc |-> outcome, bytes |-> NoBytes]
    ELSE IF path \notin DOMAIN fsys THEN [exc |-> "FileNotFoundError", bytes |-> NoBytes]
    ELSE [exc |-> None, bytes |-> fsys[path]]

\* os.remove(path)
os_remove_directory(path, fsys) == [p \in { q \in DOMAIN fsys : q.dir # path.dir } |-> fsys[p]]
os_remove(path, fsys) == [p \in DOMAIN fsys \ {path} |-> fsys[p]]

\* What the environment decides for one call: the random stems drawn for the
\* destination and the temporary file, and the outcome of the converter, of
\* reading the temporary file and of the storage write
Env(stem, tmp_stem, conv, read, write) ==
    [stem |-> stem, tmp_stem |-> tmp_stem, conv |-> conv, read |-> read, write |-> write]
ConverterError == "OSError"
ReadError == "PermissionError"
Envs ==
    { Env(s, t, c, r, w) : s \in Stems, t \in Stems,
        c \in {"ok", ConverterError}, r \in {"ok", ReadError}, w \in {"ok", WriteError} }
\* one failure at most per call: a call ends at the first statement that raises
OneFailure(env) ==
    /\ env.conv # "ok" => env.read = "ok" /\ env.write = "ok"
    /\ env.read # "ok" => env.write = "ok"

\* ------------------------------------------------------------ ico_file, svg_file
\* The invocation of the converter in ico_file and svg_file:
\* imgkit.from_string(f"<pre>{content}</pre>", tmp_filename, options)
\* [calls: how often the converter ran]
html_convert_retry(content, tmp_filename, fsys, outcome) ==
    LET first == imgkit_from_string(content, tmp_filename, fsys, outcome)
    IN IF first.exc = None THEN [calls |-> 1, exc |-> None, fs |-> first.fs]
       ELSE LET again == imgkit_from_string(content, tmp_filename, fsys, "ok")
            IN [calls |-> 2, exc |-> again.exc, fs |-> again.fs]
html_convert(content, tmp_filename, fsys, outcome) ==
    LET r == imgkit_from_string(content, tmp_filename, fsys, outcome)
    IN [calls |-> 1, exc |-> r.exc, fs |-> r.fs]

\* The body ico_file and svg_file share, for the provider's extension
html_image_file(extension, self, storage, prefix, content, env, fsys, cld, drw) ==
    LET storage1 == IF storage = NoStorage THEN FileSystemStorage ELSE storage
        filename == generate_filename(storage1, extension, prefix, None, env.stem)
        tmp_filename == generate_temporary_local_filename(storage1, extension, prefix, env.tmp_stem)
        text == _generate_text_content(self, content, drw)
        conv == html_convert(text.content, tmp_filename, fsys, env.conv)
        rd == open_read(tmp_filename, conv.fs, env.read)
        wr == write_bytes(storage1, filename, rd.bytes, conv.fs, cld, env.write)
        e3 == <<"generate_filename", "generate_temporary_local_filename",
                "_generate_text_content">>
    IN  IF conv.exc # None
        THEN Outcome(conv.fs, cld, text.draws, conv.exc, NoRet,
                     e3 \o <<"from_string">>, conv.calls, filename, tmp_filename, storage1)
        ELSE IF rd.exc # None
        THEN Outcome(conv.fs, cld, text.draws, rd.exc, NoRet,
                     e3 \o <<"from_string", "read">>, conv.calls, filename, tmp_filename, storage1)
        ELSE IF wr.exc # None
        THEN Outcome(wr.fs, wr.cloud, text.draws, wr.exc, NoRet,
                     e3 \o <<"from_string", "read", "write_bytes">>, conv.calls,
                     filename, tmp_filename, storage1)
        ELSE Outcome(os_remove(tmp_filename, wr.fs), wr.cloud, text.draws, None,
                     StringValue(storage_relpath(storage1, filename), {"content"}, text.content),
                     e3 \o <<"from_string", "read", "write_bytes", "remove", "return">>,
                     conv.calls, filename, tmp_filename, storage1)

ico_extension == "ico"
svg_extension == "svg"
ico_file_data_as_passed(self, storage, prefix, content, env, fsys, cld, drw) ==
    LET out == html_image_file(ico_extension, self, storage, prefix, content, env, fsys, cld, drw)
    IN IF out.exc = None THEN [out EXCEPT !.ret.data_content = content] ELSE out

ico_file_default_storage(self, storage, prefix, content, env, fsys, cld, drw) ==
    html_image_file(ico_extension, self, NoStorage, prefix, content, env, fsys, cld, drw)
ico_file(self, storage, prefix, content, env, fsys, cld, drw) ==
    html_image_file(ico_extension, self, storage, prefix, content, env, fsys, cld, drw)
svg_file_as_ico(self, storage, prefix, content, env, fsys, cld, drw) ==
    html_image_file(ico_extension, self, storage, prefix, content, env, fsys, cld, drw)
svg_file(self, storage, prefix, content, env, fsys, cld, drw) ==
    html_image_file(svg_extension, self, storage, prefix, content, env, fsys, cld, drw)

\* ------------------------------------------------------------ ods_file
ods_extension == "ods"
DefaultNumRows == 10
NoRootPath == <<>>
MEDIA_ROOT == <<"srv", "media">>
GivenJson == Content("given", None, None, 0, None, 0)

\* FileMixin._generate_filename(root_path, rel_path, prefix): a random name new
\* to root_path/rel_path, root_path defaulting to the temporary directory
_generate_filename(extension, root_path, rel_path, prefix, stem) ==
    Path((IF root_path = NoRootPath THEN TempDir ELSE root_path) \o rel_path,
         Name(prefix, StemStr[stem], extension))

\* FAKER.json(data_columns, num_rows) of a Faker generator g
faker_json(g, data_columns, num_rows, drw) ==
    [content |-> Content("json", None, Locale(g), drw[g] + 1, data_columns, num_rows),
     draws |-> [drw EXCEPT ![g] = @ + 1]]

ods_content_default_columns(self, data_columns, num_rows, content, drw) ==
    IF content = NoContent
    THEN faker_json(FAKER, "default", num_rows, drw)
    ELSE [content |-> content, draws |-> drw]

ods_content_generated(self, data_columns, num_rows, content, drw) ==
    faker_json(FAKER, IF data_columns \in {None, "empty"} THEN "default" ELSE data_columns,
               num_rows, drw)

\* ods_file: "if content is None" ... FAKER.json(...): the content and the
\* generator state after it
ods_content(self, data_columns, num_rows, content, drw) ==
    IF content = NoContent
    THEN faker_json(FAKER, IF data_columns \in {None, "empty"} THEN "default" ELSE data_columns,
                    num_rows, drw)
    ELSE [content |-> content, draws |-> drw]

\* Dataset().load(content, format="json") and dataset.export("ods"):
\* outcome is "ok" or the error tablib raises
ods_convert(content, outcome) ==
    IF outcome # "ok" THEN [calls |-> 1, exc |-> outcome, bytes |-> NoBytes]
    ELSE [calls |-> 1, exc |-> None, bytes |-> Bytes(ods_extension, content)]

\* ods_file(root_path, rel_path, prefix, data_columns, num_rows, content, **kwargs):
\* the keyword arguments it does not name (storage, raw, ...) are not read
ods_file(self, root_path, rel_path, prefix, data_columns, num_rows, content, env, workdir, fsys, cld, drw) ==
    LET file_name == _generate_filename(ods_extension, root_path, rel_path, prefix, env.stem)
        gen == ods_content(self, data_columns, num_rows, content, drw)
        conv == ods_convert(gen.content, env.conv)
        wr == write_bytes(FileSystemStorage, file_name, conv.bytes, fsys, cld, env.write)
        start == IF root_path = NoRootPath THEN workdir ELSE root_path
        e2 == <<"_generate_filename", "content">>
    IN  IF conv.exc # None
        THEN Outcome(fsys, cld, gen.draws, conv.exc, NoRet, e2 \o <<"convert">>,
                     conv.calls, file_name, NoPath, NoStorage)
        ELSE IF wr.exc # None
        THEN Outcome(fsys, cld, gen.draws, wr.exc, NoRet, e2 \o <<"convert", "write">>,
                     conv.calls, file_name, NoPath, NoStorage)
        ELSE Outcome(wr.fs, cld, gen.draws, None,
                     StringValue(relpath(file_name, start), {"content"}, gen.content),
                     e2 \o <<"convert", "write", "return">>,
                     conv.calls, file_name, NoPath, NoStorage)

\* ------------------------------------------------------------ jpeg_file, webp_file
jpeg_extension == "jpg"
webp_extension == "webp"

\* ImageMixin._image_file(storage, basename, prefix, ..., content, format_func,
\* raw): renders the text into an image of the provider's extension; raw: the
\* bytes are returned, otherwise they are written to the storage and the
\* path of the saved file is returned
_image_file(extension, self, storage, basename, prefix, content, format_func, raw, env, fsys, cld, drw) ==
    LET storage1 == IF storage = NoStorage THEN FileSystemStorage ELSE storage
        filename == generate_filename(storage1, extension, prefix, basename, env.stem)
        text == _generate_text_content_format_func(self, content, format_func, drw)
        image == IF env.conv # "ok" THEN [exc |-> env.conv, bytes |-> NoBytes]
                 ELSE [exc |-> None, bytes |-> Bytes(extension, text.content)]
        wr == write_bytes(storage1, filename, image.bytes, fsys, cld, env.write)
        e2 == <<"generate_filename", "_generate_text_content">>
    IN  IF image.exc # None
        THEN Outcome(fsys, cld, text.draws, image.exc, NoRet, e2 \o <<"convert">>,
                     1, filename, NoPath, storage1)
        ELSE IF raw
        THEN Outcome(fsys, cld, text.draws, None,
                     BytesValue(image.bytes, {"content", "filename"}, text.content),
                     e2 \o <<"convert", "return">>, 1, filename, NoPath, storage1)
        ELSE IF wr.exc # None
        THEN Outcome(wr.fs, wr.cloud, text.draws, wr.exc, NoRet,
                     e2 \o <<"convert", "write_bytes">>, 1, filename, NoPath, storage1)
        ELSE Outcome(wr.fs, wr.cloud, text.draws, None,
                     StringValue(storage_relpath(storage1, filename),
                                 {"content", "filename"}, text.content),
                     e2 \o <<"convert", "write_bytes", "return">>,
                     1, filename, NoPath, storage1)

\* jpeg_file(storage, basename, prefix, ..., content, format_func, raw, **kwargs)
jpeg_file_no_basename(self, storage, basename, prefix, content, format_func, raw, env, fsys, cld, drw) ==
    _image_file(jpeg_extension, self, storage, None, prefix, content, format_func, raw,
                env, fsys, cld, drw)
jpeg_file(self, storage, basename, prefix, content, format_func, raw, env, fsys, cld, drw) ==
    _image_file(jpeg_extension, self, storage, basename, prefix, content, format_func, raw,
                env, fsys, cld, drw)

webp_file_as_jpeg(self, storage, basename, prefix, content, raw, env, fsys, cld, drw) ==
    _image_file(jpeg_extension, self, storage, basename, prefix, content, DEFAULT_FORMAT_FUNC, raw,
                env, fsys, cld, drw)

\* webp_file(storage, prefix, ..., content, **kwargs): basename and raw reach
\* _image_file through **kwargs
webp_file(self, storage, basename, prefix, content, raw, env, fsys, cld, drw) ==
    _image_file(webp_extension, self, storage, basename, prefix, content, DEFAULT_FORMAT_FUNC, raw,
                env, fsys, cld, drw)

\* ------------------------------------------------------------ modules and classes
\* What a module attribute is bound to: a class (base: the name of its parent
\* class, own_generate: its body defines generate) or another object
Obj(kind, name, base, own_generate) ==
    [kind |-> kind, name |-> name, base |-> base, own_generate |-> own_generate]
Absent == Obj("absent", None, None, FALSE)

\* The provider classes
IcoFileProvider == Obj("class", "IcoFileProvider", None, FALSE)
SvgFileProvider == Obj("class", "SvgFileProvider", None, FALSE)
OdsFileProvider == Obj("class", "OdsFileProvider", None, FALSE)
JpegFileProvider == Obj("class", "JpegFileProvider", None, FALSE)
GraphicJpegFileProvider == Obj("class", "GraphicJpegFileProvider", None, FALSE)
WebpFileProvider == Obj("class", "WebpFileProvider", None, FALSE)
FakerInstance == Obj("instance", "Faker", None, FALSE)

\* The generator classes: the abstract bases, the generators shipped, and the
\* subclasses the tests declare with an empty body
BaseMp3Generator == Obj("class", "BaseMp3Generator", None, TRUE)
BasePdfGenerator == Obj("class", "BasePdfGenerator", None, TRUE)
GttsMp3Generator == Obj("class", "GttsMp3Generator", "BaseMp3Generator", TRUE)
EdgeTtsMp3Generator == Obj("class", "EdgeTtsMp3Generator", "BaseMp3Generator", TRUE)
PdfkitPdfGenerator == Obj("class", "PdfkitPdfGenerator", "BasePdfGenerator", TRUE)
ReportlabPdfGenerator == Obj("class", "ReportlabPdfGenerator", "BasePdfGenerator", TRUE)
MyMp3Generator == Obj("class", "MyMp3Generator", "BaseMp3Generator", FALSE)
MyPdfGenerator == Obj("class", "MyPdfGenerator", "BasePdfGenerator", FALSE)
DEFAULT_LANG == Obj("str", "en", None, FALSE)
GeneratorClasses ==
    {BaseMp3Generator, BasePdfGenerator, GttsMp3Generator, EdgeTtsMp3Generator,
     PdfkitPdfGenerator, ReportlabPdfGenerator, MyMp3Generator, MyPdfGenerator}
ClassNamed(name) == CHOOSE c \in GeneratorClasses : c.name = name

\* Dotted module paths, one name per element
PROVIDERS == <<"faker_file", "providers">>
ICO_FILE == PROVIDERS \o <<"ico_file">>
SVG_FILE == PROVIDERS \o <<"svg_file">>
ODS_FILE == PROVIDERS \o <<"ods_file">>
JPEG_FILE == PROVIDERS \o <<"jpeg_file">>
WEBP_FILE == PROVIDERS \o <<"webp_file">>
GTTS_GENERATOR == PROVIDERS \o <<"mp3_file", "generators", "gtts_generator">>
EDGE_TTS_GENERATOR == PROVIDERS \o <<"mp3_file", "generators", "edge_tts_generator">>
PDFKIT_GENERATOR == PROVIDERS \o <<"pdf_file", "generators", "pdfkit_generator">>
REPORTLAB_GENERATOR == PROVIDERS \o <<"pdf_file", "generators", "reportlab_generator">>
ProviderModules == {ICO_FILE, SVG_FILE, ODS_FILE, JPEG_FILE, WEBP_FILE}
GeneratorModules == {GTTS_GENERATOR, EDGE_TTS_GENERATOR, PDFKIT_GENERATOR, REPORTLAB_GENERATOR}
ModuleNames == ProviderModules \cup GeneratorModules

\* What executing a module's source binds in its namespace
ModuleSource(m) ==
    CASE m = ICO_FILE -> ("IcoFileProvider" :> IcoFileProvider)
      [] m = SVG_FILE -> ("SvgFileProvider" :> SvgFileProvider)
      [] m = ODS_FILE -> ("FAKER" :> FakerInstance @@ "OdsFileProvider" :> OdsFileProvider)
      [] m = JPEG_FILE -> ("JpegFileProvider" :> JpegFileProvider
                           @@ "GraphicJpegFileProvider" :> GraphicJpegFileProvider)
      [] m = WEBP_FILE -> ("WebpFileProvider" :> WebpFileProvider)
      [] m = GTTS_GENERATOR -> ("DEFAULT_LANG" :> DEFAULT_LANG
                                @@ "GttsMp3Generator" :> GttsMp3Generator)
      [] m = EDGE_TTS_GENERATOR -> ("EdgeTtsMp3Generator" :> EdgeTtsMp3Generator)
      [] m = PDFKIT_GENERATOR -> ("PdfkitPdfGenerator" :> PdfkitPdfGenerator)
      [] m = REPORTLAB_GENERATOR -> ("ReportlabPdfGenerator" :> ReportlabPdfGenerator)

\* sys.modules once the test module's imports have run
ImportedModules == [m \in ModuleNames |-> ModuleSource(m)]

\* The provider class a provider module is imported for
ProviderClass(m) ==
    CASE m = ICO_FILE -> "IcoFileProvider"
      [] m = SVG_FILE -> "SvgFileProvider"
      [] m = ODS_FILE -> "OdsFileProvider"
      [] m = JPEG_FILE -> "JpegFileProvider"
      [] m = WEBP_FILE -> "WebpFileProvider"

\* del module.__dict__[name]
del_attr(mods, m, name) ==
    [mods EXCEPT ![m] = [a \in DOMAIN mods[m] \ {name} |-> mods[m][a]]]

\* importlib.reload(module): the module's source runs again in the module's
\* namespace; what it binds replaces what was bound, the rest stays
reload_cached(mods, m) == mods
reload(mods, m) == [mods EXCEPT ![m] = ModuleSource(m) @@ @]

\* from <module> import <name>
from_import(mods, m, name) ==
    IF m \notin DOMAIN mods \/ name \notin DOMAIN mods[m]
    THEN [exc |-> "ImportError", obj |-> Absent]
    ELSE [exc |-> None, obj |-> mods[m][name]]

\* helpers.load_class_from_path(full_path): the class a dotted path names
load_class_from_path_getattr(full_path, mods) ==
    LET module_path == SubSeq(full_path, 1, Len(full_path) - 1)
        class_name == full_path[Len(full_path)]
    IN  IF module_path \notin DOMAIN mods THEN [exc |-> "ModuleNotFoundError", obj |-> Absent]
        ELSE IF class_name \notin DOMAIN mods[module_path]
        THEN [exc |-> "AttributeError", obj |-> Absent]
        ELSE [exc |-> None, obj |-> mods[module_path][class_name]]
load_class_from_path(full_path, mods) ==
    LET module_path == SubSeq(full_path, 1, Len(full_path) - 1)
        class_name == full_path[Len(full_path)]
    IN  IF module_path \notin DOMAIN mods THEN [exc |-> "ImportError", obj |-> Absent]
        ELSE IF class_name \notin DOMAIN mods[module_path]
        THEN [exc |-> "ImportError", obj |-> Absent]
        ELSE IF mods[module_path][class_name].kind # "class"
        THEN [exc |-> "ImportError", obj |-> Absent]
        ELSE [exc |-> None, obj |-> mods[module_path][class_name]]

\* ------------------------------------------------------------ the calls
\* No provider added to any Faker generator yet
NoProviders == [g \in {TEST_FAKER, FAKER_HY} |-> <<>>]

Selfs == {TEST_FAKER, FAKER_HY}
Prefixes == {None, "zzz"}
Basenames == {None, "alice"}
ContentArgs == {NoContent, PlainContent, TemplateContent}
OdsContentArgs == {NoContent, GivenJson}
RootPaths == {NoRootPath, MEDIA_ROOT}
DataColumns == {None, "empty", "custom"}
NumRows == {DefaultNumRows, 0}
Cwds == {TempDir, <<"home">>}

\* The arguments of a call, as the caller gave them
\* (workdir: the current working directory the call is made in)
Args(self, storage, basename, prefix, content, raw, root_path, data_columns, num_rows, workdir) ==
    [self |-> self, storage |-> storage, basename |-> basename, prefix |-> prefix,
     content |-> content, raw |-> raw, root_path |-> root_path,
     data_columns |-> data_columns, num_rows |-> num_rows, workdir |-> workdir]
NoArgs == Args(None, NoStorage, None, None, NoContent, FALSE, NoRootPath, None, 0, <<>>)

\* The calls drawn, as the tests parametrize them: the default call (no
\* storage, no options) with one argument changed at a time; a basename is
\* tried with every storage
Changed(a) ==
    (IF a.self # TEST_FAKER THEN 1 ELSE 0) + (IF a.storage # NoStorage THEN 1 ELSE 0)
    + (IF a.prefix # None THEN 1 ELSE 0) + (IF a.content # NoContent THEN 1 ELSE 0)
    + (IF a.raw THEN 1 ELSE 0) + (IF a.root_path # NoRootPath THEN 1 ELSE 0)
    + (IF a.data_columns # None THEN 1 ELSE 0)
    + (IF a.num_rows # DefaultNumRows THEN 1 ELSE 0)
Drawn(a) == Changed(a) <= 1 /\ (a.basename # None => Changed(a) = 0 \/ a.storage # NoStorage)

HtmlImageArgs ==
    { a \in { Args(self, storage, None, prefix, content, raw, NoRootPath, None, DefaultNumRows,
                     TempDir) :
                self \in Selfs, storage \in StorageArgs \cup {MEDIA_FS_STORAGE},
                prefix \in Prefixes, content \in ContentArgs, raw \in BOOLEAN } : Drawn(a) }
OdsArgs ==
    { a \in UNION { { Args(self, storage, None, prefix, content, raw, root_path, dc, nr, wd) :
                        self \in Selfs, storage \in StorageArgs, prefix \in Prefixes,
                        content \in OdsContentArgs, raw \in BOOLEAN, root_path \in RootPaths } :
                    dc \in DataColumns, nr \in NumRows, wd \in Cwds } : Drawn(a) }
ImageArgs ==
    { a \in UNION { { Args(self, storage, basename, prefix, content, raw, NoRootPath, None,
                           DefaultNumRows, TempDir) :
                        self \in Selfs, storage \in StorageArgs, prefix \in Prefixes,
                        content \in ContentArgs, raw \in BOOLEAN } :
                    basename \in Basenames } : Drawn(a) }

\* A failure is drawn for the calls that change no argument but the storage
EnvsFor(a, reads, tmp) ==
    { e \in Envs :
        /\ OneFailure(e)
        /\ (e.conv # "ok" \/ e.read # "ok" \/ e.write # "ok")
              => (Changed(a) = 0 \/ a.storage # NoStorage) /\ a.basename = None
        /\ ~reads => e.read = "ok"
        /\ ~tmp => e.tmp_stem = e.stem }

\* The calls drawn with what the environment decides for each
HtmlImageCalls == UNION { { <<a, e>> : e \in EnvsFor(a, TRUE, TRUE) } : a \in HtmlImageArgs }
OdsCalls == UNION { { <<a, e>> : e \in EnvsFor(a, FALSE, FALSE) } : a \in OdsArgs }
ImageCalls == UNION { { <<a, e>> : e \in EnvsFor(a, FALSE, FALSE) } : a \in ImageArgs }

Call(op, args, env, out) ==
    [op |-> op, args |-> args, conv |-> env.conv, exc |-> out.exc, ret |-> out.ret,
     events |-> out.events, conv_calls |-> out.conv_calls, filename |-> out.filename,
     tmp_filename |-> out.tmp_filename, storage |-> out.storage]
NoCall ==
    [op |-> None, args |-> NoArgs, conv |-> None, exc |-> None, ret |-> NoRet,
     events |-> <<>>, conv_calls |-> 0, filename |-> NoPath,
     tmp_filename |-> NoPath, storage |-> NoStorage]

Init ==
    /\ fs = <<>>
    /\ cloud = <<>>
    /\ draws = [g \in Generators |-> 0]
    /\ last = NoCall
    /\ ncalls = 0
    /\ modules = ImportedModules
    /\ providers = NoProviders

\* The call's effects become the state; the caller keeps the outcome
Commit(op, args, env, out) ==
    /\ fs' = out.fs
    /\ cloud' = out.cloud
    /\ draws' = out.draws
    /\ last' = Call(op, args, env, out)
    /\ ncalls' = ncalls + 1
    /\ UNCHANGED <<modules, providers>>

\* tempfile draws a name no file of the directory has. The names being
\* interchangeable, a destination takes the first stem new to its directory
FreshIn(path, medium) == path \notin DOMAIN medium
FirstFresh(path, medium) ==
    \A i \in Stems :
        StemStr[i] = path.name.stem
           => \A j \in 1..(i - 1) :
                 Path(path.dir, [path.name EXCEPT !.stem = StemStr[j]]) \in DOMAIN medium

IcoFile ==
    /\ ncalls < MaxCalls
    /\ \E c \in HtmlImageCalls :
          LET a == c[1]
              env == c[2]
              out == ico_file(a.self, a.storage, a.prefix, a.content, env, fs, cloud, draws)
          IN /\ FreshIn(out.filename, Medium(out.storage, fs, cloud))
             /\ FirstFresh(out.filename, Medium(out.storage, fs, cloud))
             /\ FreshIn(out.tmp_filename, fs)
             /\ Commit("ico_file", a, env, out)

SvgFile ==
    /\ ncalls < MaxCalls
    /\ \E c \in HtmlImageCalls :
          LET a == c[1]
              env == c[2]
              out == svg_file(a.self, a.storage, a.prefix, a.content, env, fs, cloud, draws)
          IN /\ FreshIn(out.filename, Medium(out.storage, fs, cloud))
             /\ FirstFresh(out.filename, Medium(out.storage, fs, cloud))
             /\ FreshIn(out.tmp_filename, fs)
             /\ Commit("svg_file", a, env, out)

OdsFile ==
    /\ ncalls < MaxCalls
    /\ \E c \in OdsCalls :
          LET a == c[1]
              env == c[2]
              out == ods_file(a.self, a.root_path, DEFAULT_REL_PATH, a.prefix, a.data_columns,
                              a.num_rows, a.content, env, a.workdir, fs, cloud, draws)
          IN /\ FreshIn(out.filename, fs)
             /\ FirstFresh(out.filename, fs)
             /\ Commit("ods_file", a, env, out)

JpegFile ==
    /\ ncalls < MaxCalls
    /\ \E c \in ImageCalls :
          LET a == c[1]
              env == c[2]
              out == jpeg_file(a.self, a.storage, a.basename, a.prefix, a.content,
                               DEFAULT_FORMAT_FUNC, a.raw,
                               env, fs, cloud, draws)
          IN /\ IF a.basename = None
                THEN /\ FreshIn(out.filename, Medium(out.storage, fs, cloud))
                     /\ FirstFresh(out.filename, Medium(out.storage, fs, cloud))
                ELSE env.stem = 1
             /\ Commit("jpeg_file", a, env, out)

WebpFile ==
    /\ ncalls < MaxCalls
    /\ \E c \in ImageCalls :
          LET a == c[1]
              env == c[2]
              out == webp_file(a.self, a.storage, a.basename, a.prefix, a.content, a.raw,
                               env, fs, cloud, draws)
          IN /\ IF a.basename = None
                THEN /\ FreshIn(out.filename, Medium(out.storage, fs, cloud))
                     /\ FirstFresh(out.filename, Medium(out.storage, fs, cloud))
                ELSE env.stem = 1
             /\ Commit("webp_file", a, env, out)

Next == IcoFile \/ SvgFile \/ OdsFile \/ JpegFile \/ WebpFile

Spec == Init /\ [][Next]_vars

\* ------------------------------------------------------------ the claims
Returned == last.op # None /\ last.exc = None
StorageOrDefault(storage) == IF storage = NoStorage THEN FS_STORAGE ELSE storage
AllFiles(fsys, cld) ==
    { [medium |-> "fs", path |-> p] : p \in DOMAIN fsys }
    \cup { [medium |-> "cloud", path |-> p] : p \in DOMAIN cld }
FileAt(f, fsys, cld) == IF f.medium = "fs" THEN fsys[f.path] ELSE cld[f.path]
MediumOf(storage) == IF storage.kind = "pathy" THEN "cloud" ELSE "fs"

\* C1: the value a provider call without raw returns names a file that exists
\* in the storage passed to the call (the default FileSystemStorage when the
\* storage passed is None)
C1_ReturnedFileExistsInStorage ==
    (Returned /\ ~last.args.raw /\ last.args.root_path = NoRootPath)
        => /\ last.ret.kind = "StringValue"
           /\ exists(StorageOrDefault(last.args.storage), last.ret.path, fs, cloud)

\* C2: a call with raw=True returns the non-empty binary content of the file,
\* a call with raw False or absent the path of the saved file
C2_RawReturnsBytes ==
    Returned
        => IF last.args.raw
           THEN last.ret.kind = "BytesValue" /\ BytesLen(last.ret.bytes) > 0
           ELSE last.ret.kind = "StringValue"

\* C3 as stated: no file present before a generation call is changed or
\* replaced by the call, also a call given the same basename, prefix and storage
C3_NoFileEverReplaced ==
    [][\A f \in AllFiles(fs, cloud) :
          /\ f \in AllFiles(fs', cloud')
          /\ FileAt(f, fs', cloud') = FileAt(f, fs, cloud)]_vars

\* C3 as amended: a file present before a generation call is still there and
\* unchanged after it, unless the call was given a basename and wrote to that
\* very destination name of that storage
C3_FileReplacedOnlyBySameBasename ==
    [][\A f \in AllFiles(fs, cloud) :
          \/ /\ f \in AllFiles(fs', cloud')
             /\ FileAt(f, fs', cloud') = FileAt(f, fs, cloud)
          \/ /\ last'.args.basename # None
             /\ last'.exc = None
             /\ f.path = last'.filename
             /\ f.medium = MediumOf(last'.storage)]_vars

\* C3's case: a later call has returned and written its file while the file of
\* an earlier call is in a storage
C3_Witness ==
    /\ ncalls = 2
    /\ Returned /\ last.ret.kind = "StringValue"
    /\ \E f \in AllFiles(fs, cloud) : f.path # last.filename /\ f.path.dir # TempDir

\* C4: the outcome of a call does not depend on the calls made before it: the
\* content ods_file generates is the content the same call generates as the
\* first call of the program
C4_OutcomeIndependentOfEarlierCalls ==
    (Returned /\ last.op = "ods_file")
        => last.ret.data_content =
              ods_content(last.args.self, last.args.data_columns, last.args.num_rows,
                          last.args.content, [g \in Generators |-> 0]).content

\* C5: when the converter raises, the call raises that same exception, the
\* converter has run exactly once and no value is returned in its place
C5_ConverterErrorPropagates ==
    (last.op \in {"ico_file", "svg_file", "ods_file"} /\ last.conv # "ok")
        => /\ last.exc = last.conv
           /\ last.conv_calls = 1
           /\ last.ret = NoRet

\* C5's case: the converter of a call has raised
C5_Witness ==
    /\ last.op \in {"ico_file", "svg_file", "ods_file"}
    /\ last.conv = ConverterError
    /\ last.exc = ConverterError

\* ------------------------------------------------------------ inner-file helpers
\* helpers.inner.create_inner_<type>_file(storage, prefix, generator, ...,
\* content, **kwargs): imports the provider class from its module when called,
\* then returns <Type>FileProvider(generator).<type>_file(...)
ImportFailed(imp, fsys, cld, drw) ==
    Outcome(fsys, cld, drw, imp.exc, NoRet, <<"import">>, 0, NoPath, NoPath, NoStorage)

create_inner_ico_file(storage, basename, prefix, generator, content, env, mods, fsys, cld, drw) ==
    LET imp == from_import(mods, ICO_FILE, ProviderClass(ICO_FILE))
    IN  IF imp.exc # None THEN ImportFailed(imp, fsys, cld, drw)
        ELSE ico_file(generator, storage, prefix, content, env, fsys, cld, drw)

create_inner_svg_file(storage, basename, prefix, generator, content, env, mods, fsys, cld, drw) ==
    LET imp == from_import(mods, SVG_FILE, ProviderClass(SVG_FILE))
    IN  IF imp.exc # None THEN ImportFailed(imp, fsys, cld, drw)
        ELSE svg_file(generator, storage, prefix, content, env, fsys, cld, drw)

create_inner_ods_file(storage, basename, prefix, generator, content, env, mods, fsys, cld, drw) ==
    LET imp == from_import(mods, ODS_FILE, ProviderClass(ODS_FILE))
    IN  IF imp.exc # None THEN ImportFailed(imp, fsys, cld, drw)
        ELSE ods_file(generator, NoRootPath, DEFAULT_REL_PATH, prefix, None, DefaultNumRows,
                      content, env, TempDir, fsys, cld, drw)

create_inner_jpeg_file(storage, basename, prefix, generator, content, env, mods, fsys, cld, drw) ==
    LET imp == from_import(mods, JPEG_FILE, ProviderClass(JPEG_FILE))
    IN  IF imp.exc # None THEN ImportFailed(imp, fsys, cld, drw)
        ELSE jpeg_file(generator, storage, basename, prefix, content, DEFAULT_FORMAT_FUNC,
                       FALSE, env, fsys, cld, drw)

create_inner_webp_file(storage, basename, prefix, generator, content, env, mods, fsys, cld, drw) ==
    LET imp == from_import(mods, WEBP_FILE, ProviderClass(WEBP_FILE))
    IN  IF imp.exc # None THEN ImportFailed(imp, fsys, cld, drw)
        ELSE webp_file(generator, storage, basename, prefix, content, FALSE, env, fsys, cld, drw)

\* The helper of a provider module, called as the archive providers call it
create_inner_file(m, storage, basename, prefix, generator, content, env, mods, fsys, cld, drw) ==
    CASE m = ICO_FILE -> create_inner_ico_file(storage, basename, prefix, generator, content,
                                               env, mods, fsys, cld, drw)
      [] m = SVG_FILE -> create_inner_svg_file(storage, basename, prefix, generator, content,
                                               env, mods, fsys, cld, drw)
      [] m = ODS_FILE -> create_inner_ods_file(storage, basename, prefix, generator, content,
                                               env, mods, fsys, cld, drw)
      [] m = JPEG_FILE -> create_inner_jpeg_file(storage, basename, prefix, generator, content,
                                                 env, mods, fsys, cld, drw)
      [] m = WEBP_FILE -> create_inner_webp_file(storage, basename, prefix, generator, content,
                                                 env, mods, fsys, cld, drw)

\* ------------------------------------------------------------ broken imports
\* The dotted paths load_class_from_path is called with: classes, a name the
\* module does not define, names bound to objects that are no classes, and a
\* module that does not exist
ClassDoesNotExist == GTTS_GENERATOR \o <<"ClassDoesNotExist">>
NotAClass == GTTS_GENERATOR \o <<"DEFAULT_LANG">>
NonExistingModule == PROVIDERS \o <<"mp3_file", "generators", "no_generator", "GttsMp3Generator">>
PathArgs ==
    { GTTS_GENERATOR \o <<"GttsMp3Generator">>, PDFKIT_GENERATOR \o <<"PdfkitPdfGenerator">>,
      ICO_FILE \o <<"IcoFileProvider">>, ODS_FILE \o <<"FAKER">>,
      ClassDoesNotExist, NotAClass, NonExistingModule }

\* One step of the test run: what was done (del, reload, a helper call, a
\* load_class_from_path call), to which module or path, and how it ended.
\* was_absent: the provider class was not in the module when the step began;
\* after_repair: the step before was the reload that brought the class back
Step(op, module, path, exc, ret, obj, filename, was_absent, after_repair) ==
    [op |-> op, module |-> module, path |-> path, exc |-> exc, ret |-> ret, obj |-> obj,
     filename |-> filename, was_absent |-> was_absent, after_repair |-> after_repair]
NoStep == Step(None, <<>>, <<>>, None, NoRet, Absent, NoPath, FALSE, FALSE)

ImportInit ==
    /\ fs = <<>>
    /\ cloud = <<>>
    /\ draws = [g \in Generators |-> 0]
    /\ last = NoStep
    /\ ncalls = 0
    /\ modules = ImportedModules
    /\ providers = NoProviders

ClassMissing(mods, m) == ProviderClass(m) \notin DOMAIN mods[m]

\* test_broken_imports: del _module.__dict__[module_name]
DelProviderClass ==
    \E m \in ProviderModules :
        /\ ~ClassMissing(modules, m)
        /\ modules' = del_attr(modules, m, ProviderClass(m))
        /\ last' = Step("del", m, <<>>, None, NoRet, Absent, NoPath, FALSE, FALSE)
        /\ UNCHANGED <<fs, cloud, draws, ncalls, providers>>

\* test_broken_imports: reload(_module); ods_file.py binds a new FAKER
ReloadModule ==
    \E m \in ProviderModules :
        /\ modules' = reload(modules, m)
        /\ draws' = IF m = ODS_FILE THEN [draws EXCEPT ![FAKER] = 0] ELSE draws
        /\ last' = Step("reload", m, <<>>, None, NoRet, Absent, NoPath,
                        ClassMissing(modules, m), FALSE)
        /\ UNCHANGED <<fs, cloud, ncalls, providers>>

\* test_broken_imports: create_inner_file_func(**create_inner_file_args)
CreateInnerFile ==
    /\ ncalls < MaxCalls
    /\ \E m \in ProviderModules, s \in Stems :
          LET env == Env(s, s, "ok", "ok", "ok")
              out == create_inner_file(m, NoStorage, None, None, TEST_FAKER, NoContent,
                                       env, modules, fs, cloud, draws)
          IN /\ out.exc = None => /\ FreshIn(out.filename, fs)
                                  /\ FirstFresh(out.filename, fs)
             /\ out.exc # None => s = 1
             /\ fs' = out.fs
             /\ cloud' = out.cloud
             /\ draws' = out.draws
             /\ last' = Step("create_inner_file", m, <<>>, out.exc, out.ret, Absent,
                             out.filename, ClassMissing(modules, m),
                             last.op = "reload" /\ last.module = m /\ last.was_absent)
             /\ ncalls' = ncalls + 1
             /\ UNCHANGED <<modules, providers>>

\* load_class_from_path(full_path)
LoadClassFromPath ==
    \E p \in PathArgs :
        LET r == load_class_from_path(p, modules)
        IN /\ last' = Step("load_class_from_path", <<>>, p, r.exc, NoRet, r.obj, NoPath,
                           FALSE, FALSE)
           /\ UNCHANGED <<fs, cloud, draws, ncalls, modules, providers>>

ImportNext == DelProviderClass \/ ReloadModule \/ CreateInnerFile \/ LoadClassFromPath

ImportSpec == ImportInit /\ [][ImportNext]_vars

\* An ImportError, or an error of a subclass of it
IsImportError(exc) == exc \in {"ImportError", "ModuleNotFoundError"}

\* C7: load_class_from_path raises ImportError when the module of the dotted
\* path does not exist, when the module has no attribute of the name, and when
\* the attribute is not a class; it returns the class otherwise
C7_LoadClassFromPathRaisesImportError ==
    last.op = "load_class_from_path"
        => LET module_path == SubSeq(last.path, 1, Len(last.path) - 1)
               class_name == last.path[Len(last.path)]
               bad == \/ module_path \notin DOMAIN modules
                      \/ class_name \notin DOMAIN modules[module_path]
                      \/ modules[module_path][class_name].kind # "class"
           IN IF bad THEN IsImportError(last.exc)
              ELSE last.exc = None /\ last.obj = modules[module_path][class_name]

\* C7 witness: the three cases of the tests' paths are told apart by the
\* registry; here the attribute that exists and is not a class
C7_Witness ==
    /\ last.op = "load_class_from_path"
    /\ last.path = NotAClass
    /\ "DEFAULT_LANG" \in DOMAIN modules[GTTS_GENERATOR]
    /\ IsImportError(last.exc)

\* C8: a create_inner_<type>_file call raises ImportError exactly when the
\* provider class is absent from its provider module, and the call made right
\* after the reload of a module whose class was absent returns a file that
\* exists in the storage
C8_BrokenImportRaisesAndReloadRepairs ==
    last.op = "create_inner_file"
        => /\ last.was_absent <=> IsImportError(last.exc)
           /\ last.was_absent => last.ret = NoRet
           /\ last.after_repair
                => /\ last.exc = None
                   /\ last.ret.kind = "StringValue"
                   /\ exists(FS_STORAGE, last.ret.path, fs, cloud)

C8_Witness ==
    /\ last.op = "create_inner_file"
    /\ last.after_repair
    /\ last.exc = None
    /\ ncalls = 2

\* ------------------------------------------------------------ mp3_file, pdf_file
\* The generator-class argument: None, a dotted path, or the class itself
GenArg(kind, path, cls) == [kind |-> kind, path |-> path, cls |-> cls]
ByNone == GenArg("none", <<>>, Absent)
ByPath(path) == GenArg("str", path, Absent)
ByClass(cls) == GenArg("cls", <<>>, cls)

\* Generator kwargs, as sets of <<key, value>>
NoKwargs == {}
Mp3Kwargs == {<<"lang", "en">>, <<"tld", "co.uk">>}
PdfKwargs == {<<"encoding", "utf-8">>}

DEFAULT_MP3_GENERATOR == GttsMp3Generator
DEFAULT_PDF_GENERATOR == PdfkitPdfGenerator
mp3_extension == "mp3"
pdf_extension == "pdf"

\* What a generator made: by the class whose generate ran, with its kwargs,
\* out of the content
Generated(by, kwargs, content) ==
    [kind |-> "generated", by |-> by, kwargs |-> kwargs, content |-> content]

\* The class whose generate method a call on an instance of cls runs
RECURSIVE generate_owner(_)
generate_owner(cls) ==
    IF cls.own_generate THEN cls.name ELSE generate_owner(ClassNamed(cls.base))

\* cls(content, generator, **kwargs).generate(): the abstract bases raise
\* NotImplementedError; outcome is "ok" or the error the engine raises
generate_empty(cls, kwargs, content, extension, outcome) ==
    IF outcome # "ok" THEN [exc |-> outcome, bytes |-> NoBytes]
    ELSE [exc |-> None,
          bytes |-> Bytes(extension, Generated(generate_owner(cls), kwargs, content))]
generate(cls, kwargs, content, extension, outcome) ==
    IF generate_owner(cls) \in {BaseMp3Generator.name, BasePdfGenerator.name}
    THEN [exc |-> "NotImplementedError", bytes |-> NoBytes]
    ELSE IF outcome # "ok" THEN [exc |-> outcome, bytes |-> NoBytes]
    ELSE [exc |-> None,
          bytes |-> Bytes(extension, Generated(generate_owner(cls), kwargs, content))]

\* The generator class of a call: the default when None, the class a dotted
\* path names when a string, else the class given
resolve_generator_cls_default(generator_cls, default_cls, mods) ==
    IF generator_cls.kind = "cls" THEN [exc |-> None, obj |-> generator_cls.cls]
    ELSE [exc |-> None, obj |-> default_cls]
resolve_generator_cls(generator_cls, default_cls, mods) ==
    IF generator_cls.kind = "none" THEN [exc |-> None, obj |-> default_cls]
    ELSE IF generator_cls.kind = "str" THEN load_class_from_path(generator_cls.path, mods)
    ELSE [exc |-> None, obj |-> generator_cls.cls]

\* The body mp3_file and pdf_file share, for the provider's extension and
\* default generator class
generated_file(extension, default_cls, self, storage, prefix, content, generator_cls, generator_kwargs, env, mods, fsys, cld, drw) ==
    LET storage1 == IF storage = NoStorage THEN FileSystemStorage ELSE storage
        filename == generate_filename(storage1, extension, prefix, None, env.stem)
        text == _generate_text_content(self, content, drw)
        res == resolve_generator_cls(generator_cls, default_cls, mods)
        gen == generate(res.obj, generator_kwargs, text.content, extension, env.conv)
        wr == write_bytes(storage1, filename, gen.bytes, fsys, cld, env.write)
        e2 == <<"generate_filename", "_generate_text_content">>
    IN  IF res.exc # None
        THEN Outcome(fsys, cld, text.draws, res.exc, NoRet, e2 \o <<"load_class_from_path">>,
                     0, filename, NoPath, storage1)
        ELSE IF gen.exc # None
        THEN Outcome(fsys, cld, text.draws, gen.exc, NoRet, e2 \o <<"generate">>,
                     1, filename, NoPath, storage1)
        ELSE IF wr.exc # None
        THEN Outcome(wr.fs, wr.cloud, text.draws, wr.exc, NoRet,
                     e2 \o <<"generate", "write_bytes">>, 1, filename, NoPath, storage1)
        ELSE Outcome(wr.fs, wr.cloud, text.draws, None,
                     StringValue(storage_relpath(storage1, filename),
                                 {"content", "filename"}, text.content),
                     e2 \o <<"generate", "write_bytes", "return">>,
                     1, filename, NoPath, storage1)

\* mp3_file(storage, prefix, ..., content, mp3_generator_cls, mp3_generator_kwargs)
mp3_file(self, storage, prefix, content, mp3_generator_cls, mp3_generator_kwargs, env, mods, fsys, cld, drw) ==
    generated_file(mp3_extension, DEFAULT_MP3_GENERATOR, self, storage, prefix, content,
                   mp3_generator_cls, mp3_generator_kwargs, env, mods, fsys, cld, drw)

\* pdf_file(storage, prefix, ..., content, pdf_generator_cls, pdf_generator_kwargs)
pdf_file(self, storage, prefix, content, pdf_generator_cls, pdf_generator_kwargs, env, mods, fsys, cld, drw) ==
    generated_file(pdf_extension, DEFAULT_PDF_GENERATOR, self, storage, prefix, content,
                   pdf_generator_cls, pdf_generator_kwargs, env, mods, fsys, cld, drw)

\* The generator classes the tests call mp3_file and pdf_file with
Mp3GeneratorArgs ==
    {ByNone, ByClass(GttsMp3Generator), ByClass(EdgeTtsMp3Generator),
     ByPath(GTTS_GENERATOR \o <<"GttsMp3Generator">>),
     ByPath(EDGE_TTS_GENERATOR \o <<"EdgeTtsMp3Generator">>),
     ByClass(BaseMp3Generator), ByClass(MyMp3Generator), ByPath(ClassDoesNotExist)}
PdfGeneratorArgs ==
    {ByNone, ByClass(PdfkitPdfGenerator), ByClass(ReportlabPdfGenerator),
     ByPath(PDFKIT_GENERATOR \o <<"PdfkitPdfGenerator">>),
     ByPath(REPORTLAB_GENERATOR \o <<"ReportlabPdfGenerator">>),
     ByClass(BasePdfGenerator), ByClass(MyPdfGenerator)}

\* A generator call: the arguments given and the outcome
GenCall(op, self, storage, content, generator_cls, generator_kwargs, env, out) ==
    [op |-> op, self |-> self, storage |-> storage, content |-> content,
     generator_cls |-> generator_cls, generator_kwargs |-> generator_kwargs,
     conv |-> env.conv, exc |-> out.exc, ret |-> out.ret, conv_calls |-> out.conv_calls,
     filename |-> out.filename]
NoGenCall ==
    [op |-> None, self |-> None, storage |-> NoStorage, content |-> NoContent,
     generator_cls |-> ByNone, generator_kwargs |-> NoKwargs,
     conv |-> None, exc |-> None, ret |-> NoRet, conv_calls |-> 0, filename |-> NoPath]

GeneratorInit ==
    /\ fs = <<>>
    /\ cloud = <<>>
    /\ draws = [g \in Generators |-> 0]
    /\ last = NoGenCall
    /\ ncalls = 0
    /\ modules = ImportedModules
    /\ providers = NoProviders

GenCommit(call, out) ==
    /\ FreshIn(out.filename, Medium(out.storage, fs, cloud))
    /\ FirstFresh(out.filename, Medium(out.storage, fs, cloud))
    /\ fs' = out.fs
    /\ cloud' = out.cloud
    /\ draws' = out.draws
    /\ last' = call
    /\ ncalls' = ncalls + 1
    /\ UNCHANGED <<modules, providers>>

Mp3File ==
    /\ ncalls < MaxCalls
    /\ \E g \in Mp3GeneratorArgs, kw \in {NoKwargs, Mp3Kwargs}, storage \in {NoStorage, PATHY_FS_STORAGE},
          s \in Stems, c \in {"ok", ConverterError} :
          LET env == Env(s, s, c, "ok", "ok")
              out == mp3_file(TEST_FAKER, storage, None, NoContent, g, kw, env,
                              modules, fs, cloud, draws)
          IN GenCommit(GenCall("mp3_file", TEST_FAKER, storage, NoContent, g, kw, env, out), out)

PdfFile ==
    /\ ncalls < MaxCalls
    /\ \E g \in PdfGeneratorArgs, kw \in {NoKwargs, PdfKwargs}, storage \in {NoStorage, PATHY_FS_STORAGE},
          s \in Stems, c \in {"ok", ConverterError} :
          LET env == Env(s, s, c, "ok", "ok")
              out == pdf_file(TEST_FAKER, storage, None, NoContent, g, kw, env,
                              modules, fs, cloud, draws)
          IN GenCommit(GenCall("pdf_file", TEST_FAKER, storage, NoContent, g, kw, env, out), out)

GeneratorNext == Mp3File \/ PdfFile

GeneratorSpec == GeneratorInit /\ [][GeneratorNext]_vars

\* No class from the generator class given up to its abstract base defines
\* generate
RECURSIVE OverridesNothing(_)
OverridesNothing(cls) ==
    IF cls.base = None THEN TRUE
    ELSE ~cls.own_generate /\ OverridesNothing(ClassNamed(cls.base))

\* C6: mp3_file with BaseMp3Generator, or with a subclass that does not
\* override generate, raises NotImplementedError and writes no file; pdf_file
\* likewise with BasePdfGenerator and its non-overriding subclasses
C6_AbstractGeneratorRaisesNotImplemented ==
    (last.op \in {"mp3_file", "pdf_file"} /\ last.generator_cls.kind = "cls"
       /\ OverridesNothing(last.generator_cls.cls))
        => /\ last.exc = "NotImplementedError"
           /\ last.ret = NoRet
           /\ last.filename \notin DOMAIN Medium(last.storage, fs, cloud)

C6_Witness ==
    /\ last.op = "mp3_file"
    /\ last.generator_cls = ByClass(MyMp3Generator)
    /\ last.exc = "NotImplementedError"

\* The file a returned generator call wrote
WrittenBy(call) == Medium(call.storage, fs, cloud)[call.filename]

\* What the attribute a dotted path names is bound to
ObjectAt(path) ==
    LET module_path == SubSeq(path, 1, Len(path) - 1)
        class_name == path[Len(path)]
    IN IF module_path \in DOMAIN modules /\ class_name \in DOMAIN modules[module_path]
       THEN modules[module_path][class_name] ELSE Absent

\* C9: a call given the generator class as a dotted path writes what the call
\* given the class object writes: the bytes the class at that path generates
\* with the generator kwargs of the call; a call given None writes what the
\* default generator class generates
C9_GeneratorByNameAsByReference ==
    (last.op \in {"mp3_file", "pdf_file"} /\ last.exc = None)
        => LET ext == IF last.op = "mp3_file" THEN mp3_extension ELSE pdf_extension
               default == IF last.op = "mp3_file" THEN DEFAULT_MP3_GENERATOR
                          ELSE DEFAULT_PDF_GENERATOR
               g == last.generator_cls
               cls == CASE g.kind = "none" -> default
                        [] g.kind = "str" -> ObjectAt(g.path)
                        [] g.kind = "cls" -> g.cls
           IN WrittenBy(last) =
                 Bytes(ext, Generated(cls.name, last.generator_kwargs, last.ret.data_content))

C9_Witness ==
    /\ last.op = "mp3_file"
    /\ last.exc = None
    /\ last.generator_cls = ByPath(EDGE_TTS_GENERATOR \o <<"EdgeTtsMp3Generator">>)
    /\ last.generator_kwargs = Mp3Kwargs
    /\ WrittenBy(last).of.by = "EdgeTtsMp3Generator"

\* ------------------------------------------------------------ zip_file, tar_file, eml_file
MaxArchives == 1
MaxPairs == 2

\* A (function, kwargs) pair of a func_list; the function is named by the
\* provider module its helper imports
Kwargs(basename, prefix, content) ==
    [basename |-> basename, prefix |-> prefix, content |-> content]
Pair(func, kwargs) == [func |-> func, kwargs |-> kwargs]
Pairs ==
    { Pair(ICO_FILE, Kwargs(None, "zzz", NoContent)),
      Pair(JPEG_FILE, Kwargs("alice", None, NoContent)),
      Pair(JPEG_FILE, Kwargs("alice", None, PlainContent)),
      Pair(WEBP_FILE, Kwargs("alice", None, NoContent)) }
FuncLists == UNION { [1..n -> Pairs] : n \in 1..MaxPairs }

Extension(m) ==
    CASE m = ICO_FILE -> ico_extension
      [] m = SVG_FILE -> svg_extension
      [] m = ODS_FILE -> ods_extension
      [] m = JPEG_FILE -> jpeg_extension
      [] m = WEBP_FILE -> webp_extension

\* The first stem tempfile can draw that names no file of the directory
LeastStem(dir, prefix, extension, medium) ==
    CHOOSE i \in 1..Len(StemStr) :
        /\ Path(dir, Name(prefix, StemStr[i], extension)) \notin DOMAIN medium
        /\ \A j \in 1..(i - 1) : Path(dir, Name(prefix, StemStr[j], extension)) \in DOMAIN medium
InnerEnv(pair, fsys) ==
    Env(LeastStem(FS_STORAGE.root \o FS_STORAGE.rel, pair.kwargs.prefix, Extension(pair.func), fsys),
        LeastStem(TempDir, pair.kwargs.prefix, Extension(pair.func), fsys), "ok", "ok", "ok")

\* helpers.inner.list_create_inner_file(func_list, ...): calls each pair's
\* function with the pair's kwargs, in order, and returns the files created
RECURSIVE list_create_inner_file(_, _, _, _, _, _)
list_create_inner_file(func_list, generator, mods, fsys, cld, drw) ==
    IF func_list = <<>>
    THEN [exc |-> None, files |-> <<>>, fs |-> fsys, cloud |-> cld, draws |-> drw]
    ELSE LET pair == Head(func_list)
         IN CHOOSE result \in
               { IF out.exc # None
                 THEN [exc |-> out.exc, files |-> <<>>, fs |-> out.fs, cloud |-> out.cloud,
                       draws |-> out.draws]
                 ELSE [list_create_inner_file(Tail(func_list), generator, mods,
                                              out.fs, out.cloud, out.draws)
                         EXCEPT !.files = <<out.ret>> \o @]
                 : out \in { create_inner_file(pair.func, FS_STORAGE, pair.kwargs.basename,
                                               pair.kwargs.prefix, generator,
                                               pair.kwargs.content, InnerEnv(pair, fsys),
                                               mods, fsys, cld, drw) } } : TRUE

\* What a container is made of: its entries, in order
Archive(entries) == [kind |-> "archive", entries |-> entries]
Entry(name, bytes) == [name |-> name, bytes |-> bytes]

\* The container takes each inner file from the local storage under the
\* file's name and removes the inner file
RECURSIVE add_inner_files(_, _, _)
add_inner_files(files, fsys, entries) ==
    IF files = <<>> THEN [exc |-> None, entries |-> entries, fs |-> fsys]
    ELSE LET abspath == join(FS_STORAGE.root, Head(files).path)
         IN IF abspath \notin DOMAIN fsys
            THEN [exc |-> "FileNotFoundError", entries |-> entries, fs |-> fsys]
            ELSE add_inner_files(Tail(files), os_remove(abspath, fsys),
                                 Append(entries, Entry(abspath.name, fsys[abspath])))

\* The body zip_file, tar_file and eml_file share, called with
\* options = {create_inner_file_func: list_create_inner_file,
\*            create_inner_file_args: {func_list: func_list}}
container_outcome(extension, storage1, filename, created, added, env) ==
    LET wr == write_bytes(storage1, filename, Bytes(extension, Archive(added.entries)),
                          added.fs, created.cloud, env.write)
        e1 == <<"generate_filename", "create_inner_file_func">>
    IN  IF created.exc # None
        THEN Outcome(created.fs, created.cloud, created.draws, created.exc, NoRet, e1,
                     0, filename, NoPath, storage1)
        ELSE IF added.exc # None
        THEN Outcome(added.fs, created.cloud, created.draws, added.exc, NoRet,
                     e1 \o <<"add">>, 0, filename, NoPath, storage1)
        ELSE IF wr.exc # None
        THEN Outcome(wr.fs, wr.cloud, created.draws, wr.exc, NoRet,
                     e1 \o <<"add", "write_bytes">>, 0, filename, NoPath, storage1)
        ELSE Outcome(wr.fs, wr.cloud, created.draws, None,
                     StringValue(storage_relpath(storage1, filename),
                                 {"content", "filename", "inner"}, NoContent),
                     e1 \o <<"add", "write_bytes", "return">>, 0, filename, NoPath, storage1)
container_file(extension, self, storage, basename, prefix, func_list, env, mods, fsys, cld, drw) ==
    LET storage1 == IF storage = NoStorage THEN FileSystemStorage ELSE storage
        filename == generate_filename(storage1, extension, prefix, basename, env.stem)
    IN  CHOOSE outcome \in
           UNION { { container_outcome(extension, storage1, filename, created, added, env) :
                       added \in { add_inner_files(created.files, created.fs, <<>>) } } :
                   created \in { list_create_inner_file(func_list, self, mods,
                                                        fsys, cld, drw) } } : TRUE

zip_extension == "zip"
tar_extension == "tar"
eml_extension == "eml"
zip_file(self, storage, basename, prefix, func_list, env, mods, fsys, cld, drw) ==
    container_file(zip_extension, self, storage, basename, prefix, func_list, env, mods,
                   fsys, cld, drw)
tar_file(self, storage, basename, prefix, func_list, env, mods, fsys, cld, drw) ==
    container_file(tar_extension, self, storage, basename, prefix, func_list, env, mods,
                   fsys, cld, drw)
eml_file(self, storage, basename, prefix, func_list, env, mods, fsys, cld, drw) ==
    container_file(eml_extension, self, storage, basename, prefix, func_list, env, mods,
                   fsys, cld, drw)

\* A container call: the arguments given and the outcome
ArchiveCall(op, storage, func_list, out) ==
    [op |-> op, storage |-> storage, func_list |-> func_list, exc |-> out.exc,
     ret |-> out.ret, filename |-> out.filename]
NoArchiveCall ==
    [op |-> None, storage |-> NoStorage, func_list |-> <<>>, exc |-> None,
     ret |-> NoRet, filename |-> NoPath]

ArchiveInit ==
    /\ fs = <<>>
    /\ cloud = <<>>
    /\ draws = [g \in Generators |-> 0]
    /\ last = NoArchiveCall
    /\ ncalls = 0
    /\ modules = ImportedModules
    /\ providers = NoProviders

ArchiveCommit(op, storage, func_list, out) ==
    /\ FreshIn(out.filename, Medium(out.storage, fs, cloud))
    /\ FirstFresh(out.filename, Medium(out.storage, fs, cloud))
    /\ fs' = out.fs
    /\ cloud' = out.cloud
    /\ draws' = out.draws
    /\ last' = ArchiveCall(op, storage, func_list, out)
    /\ ncalls' = ncalls + 1
    /\ UNCHANGED <<modules, providers>>

ZipFile ==
    /\ ncalls < MaxArchives
    /\ \E func_list \in FuncLists, storage \in {NoStorage, PATHY_FS_STORAGE}, s \in Stems :
          \E out \in { zip_file(TEST_FAKER, storage, None, None, func_list,
                                  Env(s, s, "ok", "ok", "ok"), modules, fs, cloud, draws) } :
              ArchiveCommit("zip_file", storage, func_list, out)

TarFile ==
    /\ ncalls < MaxArchives
    /\ \E func_list \in FuncLists, storage \in {NoStorage, PATHY_FS_STORAGE}, s \in Stems :
          \E out \in { tar_file(TEST_FAKER, storage, None, None, func_list,
                                  Env(s, s, "ok", "ok", "ok"), modules, fs, cloud, draws) } :
              ArchiveCommit("tar_file", storage, func_list, out)

EmlFile ==
    /\ ncalls < MaxArchives
    /\ \E func_list \in FuncLists, storage \in {NoStorage, PATHY_FS_STORAGE}, s \in Stems :
          \E out \in { eml_file(TEST_FAKER, storage, None, None, func_list,
                                  Env(s, s, "ok", "ok", "ok"), modules, fs, cloud, draws) } :
              ArchiveCommit("eml_file", storage, func_list, out)

ArchiveNext == ZipFile \/ TarFile \/ EmlFile

ArchiveSpec == ArchiveInit /\ [][ArchiveNext]_vars

\* An entry is what the pair's function makes with the pair's kwargs: a file
\* of the function's type, named by the basename or with the prefix given,
\* holding the content given or a generated text
MadeBy(entry, pair) ==
    /\ entry.name.ext = Extension(pair.func)
    /\ entry.bytes.fmt = Extension(pair.func)
    /\ IF pair.kwargs.basename # None
       THEN entry.name.stem = pair.kwargs.basename
       ELSE entry.name.prefix = pair.kwargs.prefix
    /\ IF pair.kwargs.content = NoContent
       THEN entry.bytes.of.kind = "text"
       ELSE entry.bytes.of = pair.kwargs.content

HoldsOnePerPair(call) ==
    /\ call.exc = None
    /\ call.ret.kind = "StringValue"
    /\ exists(StorageOrDefault(call.storage), call.ret.path, fs, cloud)
    /\ LET entries == Medium(call.storage, fs, cloud)[call.filename].of.entries
       IN /\ Len(entries) = Len(call.func_list)
          /\ \A i \in 1..Len(entries) : MadeBy(entries[i], call.func_list[i])

\* Two pairs name the same inner file: the same basename given to functions
\* that make files of the same extension
SameInnerName(p, q) ==
    /\ p.kwargs.basename # None
    /\ p.kwargs.basename = q.kwargs.basename
    /\ Extension(p.func) = Extension(q.func)

\* C10 as stated: zip_file, tar_file and eml_file called with
\* list_create_inner_file and a func_list of n pairs return a container that
\* exists in the storage and holds one inner file per pair, in order, each
\* made by its pair's function with its pair's kwargs
C10_ContainerHoldsOneInnerFilePerPair ==
    last.op \in {"zip_file", "tar_file", "eml_file"} => HoldsOnePerPair(last)

\* C10 as amended: the same, for a func_list no two pairs of which name the
\* same inner file
C10_DistinctNamesOneInnerFilePerPair ==
    (last.op \in {"zip_file", "tar_file", "eml_file"}
       /\ \A i, j \in 1..Len(last.func_list) :
             i # j => ~SameInnerName(last.func_list[i], last.func_list[j]))
        => HoldsOnePerPair(last)

C10_Witness ==
    /\ last.op = "zip_file"
    /\ Len(last.func_list) = 2
    /\ last.func_list[1].func = JPEG_FILE
    /\ last.func_list[2].func = WEBP_FILE
    /\ last.exc = None
    /\ Len(Medium(last.storage, fs, cloud)[last.filename].of.entries) = 2

\* ------------------------------------------------------------ fuzzy choice
MaxCount == 2

\* The func_choices lists drawn: (function, kwargs) pairs, as in the tests
FuncChoices ==
    { <<Pair(ICO_FILE, Kwargs(None, "zzz", NoContent)),
        Pair(JPEG_FILE, Kwargs("alice", None, NoContent))>>,
      <<Pair(JPEG_FILE, Kwargs("alice", None, PlainContent)),
        Pair(WEBP_FILE, Kwargs("alice", None, NoContent))>>,
      <<Pair(SVG_FILE, Kwargs(None, None, PlainContent)),
        Pair(JPEG_FILE, Kwargs(None, "zzz", NoContent))>>,
      <<Pair(WEBP_FILE, Kwargs(None, "zzz", PlainContent))>> }

\* What random.choice draws, call after call of the inner function: one index
\* into func_choices per inner file
Picks(func_choices) ==
    UNION { [1..count -> 1..Len(func_choices)] : count \in 1..MaxCount }

\* helpers.inner.fuzzy_choice_create_inner_file(func_choices, **kwargs): draws
\* one pair of func_choices (pick) and calls its function with its kwargs
fuzzy_choice_create_inner_file(func_choices, pick, generator, mods, fsys, cld, drw) ==
    LET pair == func_choices[pick]
    IN create_inner_file(pair.func, FS_STORAGE, pair.kwargs.basename, pair.kwargs.prefix,
                         generator, pair.kwargs.content, InnerEnv(pair, fsys),
                         mods, fsys, cld, drw)

\* The container's loop over range(count): each round calls the inner
\* function once, takes the file it made into the container and removes it
RECURSIVE fuzzy_inner_files(_, _, _, _, _, _, _, _)
fuzzy_inner_files(func_choices, picks, generator, mods, fsys, cld, drw, entries) ==
    IF picks = <<>>
    THEN [exc |-> None, entries |-> entries, fs |-> fsys, cloud |-> cld, draws |-> drw]
    ELSE CHOOSE result \in UNION {
            { IF out.exc # None
              THEN [exc |-> out.exc, entries |-> entries, fs |-> out.fs,
                    cloud |-> out.cloud, draws |-> out.draws]
              ELSE IF added.exc # None
              THEN [exc |-> added.exc, entries |-> added.entries, fs |-> added.fs,
                    cloud |-> out.cloud, draws |-> out.draws]
              ELSE fuzzy_inner_files(func_choices, Tail(picks), generator, mods,
                                     added.fs, out.cloud, out.draws, added.entries)
              : added \in { add_inner_files(IF out.exc = None THEN <<out.ret>> ELSE <<>>,
                                            out.fs, entries) } }
            : out \in { fuzzy_choice_create_inner_file(func_choices, Head(picks), generator,
                                                       mods, fsys, cld, drw) } } : TRUE

\* zip_file, tar_file and eml_file called with
\* options = {count: Len(picks), create_inner_file_func: fuzzy_choice_create_inner_file,
\*            create_inner_file_args: {func_choices: func_choices}}
fuzzy_container_file(extension, self, storage, basename, prefix, func_choices, picks, env, mods, fsys, cld, drw) ==
    LET storage1 == IF storage = NoStorage THEN FileSystemStorage ELSE storage
        filename == generate_filename(storage1, extension, prefix, basename, env.stem)
    IN  CHOOSE outcome \in
           { container_outcome(extension, storage1, filename, made,
                               [exc |-> None, entries |-> made.entries, fs |-> made.fs], env) :
               made \in { fuzzy_inner_files(func_choices, picks, self, mods, fsys, cld,
                                            drw, <<>>) } } : TRUE

\* A container call with fuzzy choice: the arguments given, what was drawn,
\* and the outcome
FuzzyCall(op, storage, func_choices, picks, out) ==
    [op |-> op, storage |-> storage, func_choices |-> func_choices, picks |-> picks,
     exc |-> out.exc, ret |-> out.ret, filename |-> out.filename]
NoFuzzyCall ==
    [op |-> None, storage |-> NoStorage, func_choices |-> <<>>, picks |-> <<>>,
     exc |-> None, ret |-> NoRet, filename |-> NoPath]

FuzzyInit ==
    /\ fs = <<>>
    /\ cloud = <<>>
    /\ draws = [g \in Generators |-> 0]
    /\ last = NoFuzzyCall
    /\ ncalls = 0
    /\ modules = ImportedModules
    /\ providers = NoProviders

FuzzyCommit(op, storage, func_choices, picks, out) ==
    /\ FreshIn(out.filename, Medium(out.storage, fs, cloud))
    /\ FirstFresh(out.filename, Medium(out.storage, fs, cloud))
    /\ fs' = out.fs
    /\ cloud' = out.cloud
    /\ draws' = out.draws
    /\ last' = FuzzyCall(op, storage, func_choices, picks, out)
    /\ ncalls' = ncalls + 1
    /\ UNCHANGED <<modules, providers>>

ZipFileFuzzyChoice ==
    /\ ncalls < MaxArchives
    /\ \E func_choices \in FuncChoices, storage \in {NoStorage, PATHY_FS_STORAGE}, s \in Stems :
          \E picks \in Picks(func_choices) :
             \E out \in { fuzzy_container_file(zip_extension, TEST_FAKER, storage, None, None,
                                               func_choices, picks, Env(s, s, "ok", "ok", "ok"),
                                               modules, fs, cloud, draws) } :
                 FuzzyCommit("zip_file", storage, func_choices, picks, out)

TarFileFuzzyChoice ==
    /\ ncalls < MaxArchives
    /\ \E func_choices \in FuncChoices, storage \in {NoStorage, PATHY_FS_STORAGE}, s \in Stems :
          \E picks \in Picks(func_choices) :
             \E out \in { fuzzy_container_file(tar_extension, TEST_FAKER, storage, None, None,
                                               func_choices, picks, Env(s, s, "ok", "ok", "ok"),
                                               modules, fs, cloud, draws) } :
                 FuzzyCommit("tar_file", storage, func_choices, picks, out)

EmlFileFuzzyChoice ==
    /\ ncalls < MaxArchives
    /\ \E func_choices \in FuncChoices, storage \in {NoStorage, PATHY_FS_STORAGE}, s \in Stems :
          \E picks \in Picks(func_choices) :
             \E out \in { fuzzy_container_file(eml_extension, TEST_FAKER, storage, None, None,
                                               func_choices, picks, Env(s, s, "ok", "ok", "ok"),
                                               modules, fs, cloud, draws) } :
                 FuzzyCommit("eml_file", storage, func_choices, picks, out)

FuzzyNext == ZipFileFuzzyChoice \/ TarFileFuzzyChoice \/ EmlFileFuzzyChoice

FuzzySpec == FuzzyInit /\ [][FuzzyNext]_vars

\* C11: an archive built with fuzzy_choice_create_inner_file and a non-empty
\* func_choices holds one inner file per round, and every inner file is what
\* one of the listed pairs' function makes with that pair's kwargs
C11_FuzzyChoiceOnlyListedPairs ==
    (last.op \in {"zip_file", "tar_file", "eml_file"} /\ last.func_choices # <<>>)
        => /\ last.exc = None
           /\ exists(StorageOrDefault(last.storage), last.ret.path, fs, cloud)
           /\ LET entries == Medium(last.storage, fs, cloud)[last.filename].of.entries
              IN /\ Len(entries) = Len(last.picks)
                 /\ \A i \in 1..Len(entries) :
                       \E k \in 1..Len(last.func_choices) :
                          MadeBy(entries[i], last.func_choices[k])

C11_Witness ==
    /\ last.op = "tar_file"
    /\ Len(last.func_choices) = 2
    /\ last.picks = <<2, 1>>
    /\ last.exc = None
    /\ Len(Medium(last.storage, fs, cloud)[last.filename].of.entries) = 2

\* ------------------------------------------------------------ nested containers
MaxDepth == 2
DefaultCount == 5

TXT_FILE == PROVIDERS \o <<"txt_file">>
ZIP_FILE == PROVIDERS \o <<"zip_file">>
TAR_FILE == PROVIDERS \o <<"tar_file">>
EML_FILE == PROVIDERS \o <<"eml_file">>
Containers == {ZIP_FILE, TAR_FILE, EML_FILE}
ContainerExtension(m) ==
    CASE m = ZIP_FILE -> zip_extension
      [] m = TAR_FILE -> tar_extension
      [] m = EML_FILE -> eml_extension

\* TxtFileProvider.txt_file: the text is written to a new file of the storage
txt_extension == "txt"
txt_file(self, storage, prefix, content, env, fsys, cld, drw) ==
    LET storage1 == IF storage = NoStorage THEN FileSystemStorage ELSE storage
        filename == generate_filename(storage1, txt_extension, prefix, None, env.stem)
        text == _generate_text_content(self, content, drw)
        wr == write_bytes(storage1, filename, Bytes(txt_extension, text.content),
                          fsys, cld, env.write)
    IN  IF wr.exc # None
        THEN Outcome(wr.fs, wr.cloud, text.draws, wr.exc, NoRet,
                     <<"generate_filename", "_generate_text_content", "write_bytes">>,
                     0, filename, NoPath, storage1)
        ELSE Outcome(wr.fs, wr.cloud, text.draws, None,
                     StringValue(storage_relpath(storage1, filename),
                                 {"content", "filename"}, text.content),
                     <<"generate_filename", "_generate_text_content", "write_bytes", "return">>,
                     0, filename, NoPath, storage1)

\* The options of a container call, outermost first: each level gives count
\* and create_inner_file_func, and hands the levels after it to the containers
\* it creates (create_inner_file_args: {options: ...}). No level left: the
\* defaults, DefaultCount files made by create_inner_txt_file
Level(count, func) == [count |-> count, func |-> func]
options_count(levels) == IF levels = <<>> THEN DefaultCount ELSE Head(levels).count
options_func(levels) == IF levels = <<>> THEN TXT_FILE ELSE Head(levels).func
inner_options_default(levels) == <<>>
inner_options(levels) == IF levels = <<>> THEN <<>> ELSE Tail(levels)

\* What a nested call hands back: the outcome and the number of inner-file
\* creations made on its behalf (calls)
Nested(out, calls) ==
    [exc |-> out.exc, ret |-> out.ret, fs |-> out.fs, cloud |-> out.cloud,
     draws |-> out.draws, filename |-> out.filename, storage |-> out.storage,
     calls |-> calls]

RECURSIVE nested_container_file(_, _, _, _, _, _, _, _)
RECURSIVE nested_inner_files(_, _, _, _, _, _, _, _, _)

\* create_inner_zip_file / create_inner_tar_file / create_inner_eml_file /
\* create_inner_txt_file(storage, generator, **kwargs): the provider's method
\* called on the local storage
nested_create_inner_file(func, levels, self, fsys, cld, drw) ==
    IF func \in Containers
    THEN nested_container_file(ContainerExtension(func), self, FS_STORAGE, levels,
                               LeastStem(FS_STORAGE.root \o FS_STORAGE.rel, None,
                                         ContainerExtension(func), fsys),
                               fsys, cld, drw)
    ELSE Nested(txt_file(self, FS_STORAGE, None, NoContent,
                         Env(LeastStem(FS_STORAGE.root \o FS_STORAGE.rel, None,
                                       txt_extension, fsys), 1, "ok", "ok", "ok"),
                         fsys, cld, drw), 0)

\* for _ in range(count): create an inner file, take it in, remove it
nested_inner_files(func, levels, count, self, fsys, cld, drw, entries, calls) ==
    IF count = 0
    THEN [exc |-> None, entries |-> entries, fs |-> fsys, cloud |-> cld, draws |-> drw,
          calls |-> calls]
    ELSE CHOOSE result \in UNION {
            { IF out.exc # None
              THEN [exc |-> out.exc, entries |-> entries, fs |-> out.fs, cloud |-> out.cloud,
                    draws |-> out.draws, calls |-> calls + 1 + out.calls]
              ELSE IF added.exc # None
              THEN [exc |-> added.exc, entries |-> added.entries, fs |-> added.fs,
                    cloud |-> out.cloud, draws |-> out.draws, calls |-> calls + 1 + out.calls]
              ELSE nested_inner_files(func, levels, count - 1, self, added.fs, out.cloud,
                                      out.draws, added.entries, calls + 1 + out.calls)
              : added \in { add_inner_files(IF out.exc = None THEN <<out.ret>> ELSE <<>>,
                                            out.fs, entries) } }
            : out \in { nested_create_inner_file(func, levels, self, fsys, cld, drw) } } : TRUE

\* zip_file, tar_file and eml_file called with options = {count: ...,
\* create_inner_file_func: ..., create_inner_file_args: {options: ...}}
nested_container_file(extension, self, storage, levels, stem, fsys, cld, drw) ==
    LET storage1 == IF storage = NoStorage THEN FileSystemStorage ELSE storage
        filename == generate_filename(storage1, extension, None, None, stem)
    IN  CHOOSE result \in UNION {
            { Nested(out, made.calls) :
                out \in { container_outcome(extension, storage1, filename, made,
                                            [exc |-> None, entries |-> made.entries,
                                             fs |-> made.fs],
                                            Env(stem, stem, "ok", "ok", "ok")) } }
            : made \in { nested_inner_files(options_func(levels), inner_options(levels),
                                            options_count(levels), self, fsys, cld, drw,
                                            <<>>, 0) } } : TRUE

\* The options drawn: up to MaxDepth levels of containers in containers
NestedOptions ==
    UNION { { [i \in 1..d |-> Level(counts[i], func)] :
                counts \in [1..d -> 1..MaxCount], func \in Containers } :
            d \in 0..MaxDepth }

NestedCall(op, storage, levels, out) ==
    [op |-> op, storage |-> storage, levels |-> levels, exc |-> out.exc, ret |-> out.ret,
     filename |-> out.filename, calls |-> out.calls]
NoNestedCall ==
    [op |-> None, storage |-> NoStorage, levels |-> <<>>, exc |-> None, ret |-> NoRet,
     filename |-> NoPath, calls |-> 0]

NestedInit ==
    /\ fs = <<>>
    /\ cloud = <<>>
    /\ draws = [g \in Generators |-> 0]
    /\ last = NoNestedCall
    /\ ncalls = 0
    /\ modules = ImportedModules
    /\ providers = NoProviders

NestedCommit(op, storage, levels, out) ==
    /\ FreshIn(out.filename, Medium(out.storage, fs, cloud))
    /\ FirstFresh(out.filename, Medium(out.storage, fs, cloud))
    /\ fs' = out.fs
    /\ cloud' = out.cloud
    /\ draws' = out.draws
    /\ last' = NestedCall(op, storage, levels, out)
    /\ ncalls' = ncalls + 1
    /\ UNCHANGED <<modules, providers>>

ZipFileNested ==
    /\ ncalls < MaxArchives
    /\ \E levels \in NestedOptions, storage \in {NoStorage, PATHY_FS_STORAGE}, s \in Stems :
          \E out \in { nested_container_file(zip_extension, TEST_FAKER, storage, levels, s,
                                             fs, cloud, draws) } :
              NestedCommit("zip_file", storage, levels, out)

TarFileNested ==
    /\ ncalls < MaxArchives
    /\ \E levels \in NestedOptions, storage \in {NoStorage, PATHY_FS_STORAGE}, s \in Stems :
          \E out \in { nested_container_file(tar_extension, TEST_FAKER, storage, levels, s,
                                             fs, cloud, draws) } :
              NestedCommit("tar_file", storage, levels, out)

EmlFileNested ==
    /\ ncalls < MaxArchives
    /\ \E levels \in NestedOptions, storage \in {NoStorage, PATHY_FS_STORAGE}, s \in Stems :
          \E out \in { nested_container_file(eml_extension, TEST_FAKER, storage, levels, s,
                                             fs, cloud, draws) } :
              NestedCommit("eml_file", storage, levels, out)

NestedNext == ZipFileNested \/ TarFileNested \/ EmlFileNested

NestedSpec == NestedInit /\ [][NestedNext]_vars

\* The inner-file creations the options ask for: count at each level, times
\* the creations of each container created at that level
RECURSIVE Invocations(_)
Invocations(levels) ==
    IF levels = <<>> THEN DefaultCount
    ELSE Head(levels).count *
           (1 + IF Head(levels).func \in Containers THEN Invocations(Tail(levels)) ELSE 0)

\* The most creations any options of depth d can ask for
RECURSIVE InvocationBound(_)
InvocationBound(d) ==
    IF d = 0 THEN DefaultCount
    ELSE LET m == IF MaxCount > DefaultCount THEN MaxCount ELSE DefaultCount
         IN m * (1 + InvocationBound(d - 1))

\* The depth of containers in containers that a file holds
RECURSIVE Depth(_)
Depth(bytes) ==
    IF bytes.fmt \notin {zip_extension, tar_extension, eml_extension} THEN 0
    ELSE LET entries == bytes.of.entries
             ds == { Depth(entries[i].bytes) : i \in 1..Len(entries) }
         IN 1 + (IF ds = {} THEN 0 ELSE CHOOSE d \in ds : \A e \in ds : e <= d)

\* C12: zip_file, tar_file (and eml_file) whose inner files are themselves
\* containers return: the call ends without an exception with its file in
\* storage, after a number of inner-file creations fixed by the options
\* (bounded by the counts and the depth of the options), and the containers
\* nest exactly as deep as the options say
C12_NestedArchiveReturnsAfterBoundedCreations ==
    (last.op \in {"zip_file", "tar_file", "eml_file"} /\ last.levels # <<>>)
        => /\ last.exc = None
           /\ exists(StorageOrDefault(last.storage), last.ret.path, fs, cloud)
           /\ last.calls = Invocations(last.levels)
           /\ last.calls <= InvocationBound(Len(last.levels))
           /\ Depth(Medium(last.storage, fs, cloud)[last.filename]) = Len(last.levels) + 1

C12_Witness ==
    /\ last.op = "zip_file"
    /\ last.levels = <<Level(2, ZIP_FILE), Level(2, ZIP_FILE)>>
    /\ last.exc = None
    /\ last.calls = 26
    /\ Depth(Medium(last.storage, fs, cloud)[last.filename]) = 3

\* ------------------------------------------------------------ provider calls, continued
\* The storage a call with these arguments is to use
StorageOf(args) == IF args.storage = NoStorage THEN FileSystemStorage ELSE args.storage
CallMade(ops) == last'.op \in ops /\ ncalls' = ncalls + 1

\* C13: ico_file and svg_file use FileSystemStorage exactly when the storage
\* passed is None; with a storage passed, the destination name is made by that
\* storage, the bytes are written to it and to no other storage, and the value
\* returned is the destination relative to that storage's root
C13_StorageDefaultsOnlyWhenNone ==
    [][CallMade({"ico_file", "svg_file"})
         => LET st == StorageOf(last'.args)
                filename == last'.filename
            IN /\ last'.storage = st
               /\ (last'.storage = FileSystemStorage)
                     <=> last'.args.storage \in {NoStorage, FileSystemStorage}
               /\ filename.dir = st.root \o st.rel
               /\ last'.exc = None
                    => /\ filename \in DOMAIN Medium(st, fs', cloud')
                       /\ Medium(st, fs', cloud')[filename].fmt = filename.name.ext
                       /\ IF st.kind = "pathy"
                          THEN fs' = fs
                          ELSE /\ cloud' = cloud
                               /\ DOMAIN fs' = DOMAIN fs \cup {filename}
                       /\ last'.ret.path = storage_relpath(st, filename)
                       /\ join(st.root, last'.ret.path) = filename]_vars

C13_Witness ==
    /\ last.op = "svg_file"
    /\ last.args.storage = MEDIA_FS_STORAGE
    /\ last.exc = None
    /\ last.filename.dir = <<"srv", "media", "tmp">>
    /\ last.filename \in DOMAIN fs
    /\ last.ret.path = RelPath(0, <<"tmp">>, last.filename.name)

\* The files root directory an ods_file call generates its file under
RootOf(args) == IF args.root_path = NoRootPath THEN TempDir ELSE args.root_path

\* C14: the value ods_file returns is the path of the file it wrote, relative
\* to the files root directory the file was generated under, for every
\* root_path, the default None (the temporary directory) included
C14_OdsReturnsPathRelativeToRoot ==
    (Returned /\ last.op = "ods_file")
        => /\ last.filename \in DOMAIN fs
           /\ last.ret.path = relpath(last.filename, RootOf(last.args))
           /\ last.ret.path.ups = 0

\* ------------------------------------------------------------ keyword arguments
MaxKwargsCalls == 1

\* A call with keyword arguments: what the caller gave and the outcome
KwargsCall(op, self, content, data_columns, num_rows, include_row_ids, format_func, out) ==
    [op |-> op, self |-> self, content |-> content, data_columns |-> data_columns,
     num_rows |-> num_rows, include_row_ids |-> include_row_ids,
     format_func |-> format_func, exc |-> out.exc, ret |-> out.ret,
     filename |-> out.filename]
NoKwargsCall ==
    [op |-> None, self |-> None, content |-> NoContent, data_columns |-> None,
     num_rows |-> 0, include_row_ids |-> FALSE, format_func |-> DEFAULT_FORMAT_FUNC,
     exc |-> None, ret |-> NoRet, filename |-> NoPath]

KwargsInit ==
    /\ fs = <<>>
    /\ cloud = <<>>
    /\ draws = [g \in Generators |-> 0]
    /\ last = NoKwargsCall
    /\ ncalls = 0
    /\ modules = ImportedModules
    /\ providers = NoProviders

KwargsCommit(call, out) ==
    /\ FreshIn(out.filename, fs)
    /\ FirstFresh(out.filename, fs)
    /\ fs' = out.fs
    /\ cloud' = out.cloud
    /\ draws' = out.draws
    /\ last' = call
    /\ ncalls' = ncalls + 1
    /\ UNCHANGED <<modules, providers>>

\* ods_file(data_columns=..., num_rows=..., content=..., include_row_ids=...,
\* format_func=...): include_row_ids and format_func are taken by **kwargs,
\* which ods_file does not read
OdsFileKwargs ==
    /\ ncalls < MaxKwargsCalls
    /\ \E self \in Selfs, content \in OdsContentArgs, dc \in DataColumns, nr \in NumRows :
        \E include_row_ids \in BOOLEAN, format_func \in FormatFuncs, s \in Stems :
          \E out \in { ods_file(self, NoRootPath, DEFAULT_REL_PATH, None, dc, nr, content,
                                Env(s, s, "ok", "ok", "ok"), TempDir, fs, cloud, draws) } :
              KwargsCommit(KwargsCall("ods_file", self, content, dc, nr, include_row_ids,
                                      format_func, out), out)

\* ico_file(content=..., format_func=...): format_func is taken by **kwargs,
\* which ico_file does not read
IcoFileKwargs ==
    /\ ncalls < MaxKwargsCalls
    /\ \E self \in Selfs, content \in ContentArgs, format_func \in FormatFuncs, s \in Stems :
          \E out \in { ico_file(self, NoStorage, None, content,
                                Env(s, 1, "ok", "ok", "ok"), fs, cloud, draws) } :
              KwargsCommit(KwargsCall("ico_file", self, content, None, DefaultNumRows, FALSE,
                                      format_func, out), out)

\* svg_file(content=..., format_func=...): as ico_file
SvgFileKwargs ==
    /\ ncalls < MaxKwargsCalls
    /\ \E self \in Selfs, content \in ContentArgs, format_func \in FormatFuncs, s \in Stems :
          \E out \in { svg_file(self, NoStorage, None, content,
                                Env(s, 1, "ok", "ok", "ok"), fs, cloud, draws) } :
              KwargsCommit(KwargsCall("svg_file", self, content, None, DefaultNumRows, FALSE,
                                      format_func, out), out)

\* jpeg_file(content=..., format_func=...): format_func is a parameter
JpegFileKwargs ==
    /\ ncalls < MaxKwargsCalls
    /\ \E self \in Selfs, content \in ContentArgs, format_func \in FormatFuncs, s \in Stems :
          \E out \in { jpeg_file(self, NoStorage, None, None, content, format_func, FALSE,
                                 Env(s, s, "ok", "ok", "ok"), fs, cloud, draws) } :
              KwargsCommit(KwargsCall("jpeg_file", self, content, None, DefaultNumRows, FALSE,
                                      format_func, out), out)

KwargsNext == OdsFileKwargs \/ IcoFileKwargs \/ SvgFileKwargs \/ JpegFileKwargs

KwargsSpec == KwargsInit /\ [][KwargsNext]_vars

\* C15: content given to ods_file is used as is: no content is generated (no
\* generator is drawn from), the file is made of the given content and the
\* returned value's data content is the given content, whatever data_columns
\* and num_rows are
C15_GivenContentUsedAsIs ==
    [][(CallMade({"ods_file"}) /\ last'.content # NoContent)
         => /\ last'.exc = None
            /\ draws' = draws
            /\ last'.ret.data_content = last'.content
            /\ last'.filename \in DOMAIN fs'
            /\ fs'[last'.filename] = Bytes(ods_extension, last'.content)]_vars

C15_Witness ==
    /\ last.op = "ods_file"
    /\ last.content = GivenJson
    /\ last.data_columns = "custom"
    /\ last.num_rows = 0
    /\ last.ret.data_content = GivenJson
    /\ fs[last.filename].of = GivenJson

\* The columns of a content generated with a sequential row ID column
RowIdColumns(data_columns) ==
    CASE data_columns \in {None, "empty"} -> "row_id, default"
      [] OTHER -> "row_id, custom"

\* C16: ods_file called with include_row_ids=True generates content that has a
\* sequential row ID column next to the data columns, and num_rows rows
C16_IncludeRowIdsAddsRowIdColumn ==
    (Returned /\ last.op = "ods_file" /\ last.include_row_ids /\ last.content = NoContent)
        => /\ last.ret.data_content.kind = "json"
           /\ last.ret.data_content.rows = last.num_rows
           /\ last.ret.data_content.cols = RowIdColumns(last.data_columns)

\* C17: a format_func passed to a provider method (jpeg_file, ico_file,
\* svg_file, ods_file) is the callable that formats the template strings of
\* the content: the content returned was formatted by it, not by the default
C17_PassedFormatFuncFormatsTemplates ==
    (/\ Returned
     /\ last.op \in {"jpeg_file", "ico_file", "svg_file", "ods_file"}
     /\ last.format_func # DEFAULT_FORMAT_FUNC
     /\ IF last.op = "ods_file" THEN last.content = NoContent
                                ELSE last.content.kind = "template")
        => last.ret.data_content.fmt = last.format_func

\* C18: the value every provider method returns carries its provenance in
\* data: the content and, under "filename", the name of the file written
C18_ReturnValueCarriesFileName ==
    Returned => {"content", "filename"} \subseteq last.ret.data_keys

\* ------------------------------------------------------------ graphic_jpeg_file
graphic_jpeg_extension == "jpg"
graphic_jpeg_image_format == "jpeg"
GraphicContent(image_format) == Content("graphic", image_format, None, 0, None, 0)

\* GraphicImageMixin._image_file(image_format, storage, basename, prefix, size,
\* hue, luminosity, raw): draws an image, saves it in image_format under a
\* name of the provider's extension
_graphic_image_file(extension, image_format, self, storage, basename, prefix, raw, env, fsys, cld, drw) ==
    LET storage1 == IF storage = NoStorage THEN FileSystemStorage ELSE storage
        filename == generate_filename(storage1, extension, prefix, basename, env.stem)
        image == Bytes(extension, GraphicContent(image_format))
        wr == write_bytes(storage1, filename, image, fsys, cld, env.write)
    IN  IF raw
        THEN Outcome(fsys, cld, drw, None,
                     BytesValue(image, {"content", "filename"}, GraphicContent(image_format)),
                     <<"generate_filename", "image", "return">>, 1, filename, NoPath, storage1)
        ELSE IF wr.exc # None
        THEN Outcome(wr.fs, wr.cloud, drw, wr.exc, NoRet,
                     <<"generate_filename", "image", "write_bytes">>, 1, filename, NoPath,
                     storage1)
        ELSE Outcome(wr.fs, wr.cloud, drw, None,
                     StringValue(storage_relpath(storage1, filename), {"content", "filename"},
                                 GraphicContent(image_format)),
                     <<"generate_filename", "image", "write_bytes", "return">>, 1, filename,
                     NoPath, storage1)

\* graphic_jpeg_file(storage, basename, prefix, size, hue, luminosity, raw, **kwargs)
graphic_jpeg_file(self, storage, basename, prefix, raw, env, fsys, cld, drw) ==
    _graphic_image_file(graphic_jpeg_extension, graphic_jpeg_image_format, self, storage,
                        basename, prefix, raw, env, fsys, cld, drw)

\* ------------------------------------------------------------ Faker.add_provider
MaxProviders == 2
MaxFakerCalls == 1

\* The Faker instance and the storages the calls are drawn with
Fakes == {TEST_FAKER}
FakerStorageArgs == {NoStorage, PATHY_FS_STORAGE}
Methods == {"ico_file", "svg_file", "ods_file", "jpeg_file", "graphic_jpeg_file", "webp_file"}
ProviderClasses ==
    {IcoFileProvider, SvgFileProvider, OdsFileProvider, JpegFileProvider,
     GraphicJpegFileProvider, WebpFileProvider}

\* The provider class that defines a method
Defines(cls, method) ==
    \/ cls = IcoFileProvider /\ method = "ico_file"
    \/ cls = SvgFileProvider /\ method = "svg_file"
    \/ cls = OdsFileProvider /\ method = "ods_file"
    \/ cls = JpegFileProvider /\ method = "jpeg_file"
    \/ cls = GraphicJpegFileProvider /\ method = "graphic_jpeg_file"
    \/ cls = WebpFileProvider /\ method = "webp_file"

\* fake.add_provider(provider): the class is instantiated on fake, put first
\* in fake's providers, and its public methods become attributes of fake
add_provider(added, fake, cls) == [added EXCEPT ![fake] = <<cls>> \o @]

\* getattr(fake, method_name): the method of the provider added last among
\* those that define it; Absent when none does
getattr(added, fake, method) ==
    LET defining == { i \in 1..Len(added[fake]) : Defines(added[fake][i], method) }
    IN IF defining = {} THEN Absent
       ELSE added[fake][CHOOSE i \in defining : \A j \in defining : i <= j]

\* provider(fake).<method_name>(storage=storage): the method of a provider
\* class bound to an instance whose generator is fake
provider_method(cls, self, storage, env, fsys, cld, drw) ==
    CASE cls = IcoFileProvider ->
           ico_file(self, storage, None, NoContent, env, fsys, cld, drw)
      [] cls = SvgFileProvider ->
           svg_file(self, storage, None, NoContent, env, fsys, cld, drw)
      [] cls = OdsFileProvider ->
           ods_file(self, NoRootPath, DEFAULT_REL_PATH, None, None, DefaultNumRows, NoContent,
                    env, TempDir, fsys, cld, drw)
      [] cls = JpegFileProvider ->
           jpeg_file(self, storage, None, None, NoContent, DEFAULT_FORMAT_FUNC, FALSE,
                     env, fsys, cld, drw)
      [] cls = GraphicJpegFileProvider ->
           graphic_jpeg_file(self, storage, None, None, FALSE, env, fsys, cld, drw)
      [] cls = WebpFileProvider ->
           webp_file(self, storage, None, None, NoContent, FALSE, env, fsys, cld, drw)

\* A call through fake or on a provider instance of its own: the route, the
\* arguments, the class whose method ran, and the outcome
FakerCall(route, fake, method, storage, cls, out) ==
    [op |-> method, route |-> route, fake |-> fake, storage |-> storage, provider |-> cls,
     exc |-> out.exc, ret |-> out.ret, filename |-> out.filename,
     tmp_filename |-> out.tmp_filename, used |-> out.storage]
NoFakerCall ==
    [op |-> None, route |-> None, fake |-> None, storage |-> NoStorage, provider |-> Absent,
     exc |-> None, ret |-> NoRet, filename |-> NoPath, tmp_filename |-> NoPath,
     used |-> NoStorage]

FakerInit ==
    /\ fs = <<>>
    /\ cloud = <<>>
    /\ draws = [g \in Generators |-> 0]
    /\ last = NoFakerCall
    /\ ncalls = 0
    /\ modules = ImportedModules
    /\ providers = NoProviders

\* test_faker: fake.add_provider(provider)
AddProvider ==
    \E fake \in Fakes, cls \in ProviderClasses :
        /\ Len(providers[fake]) < MaxProviders
        /\ providers' = add_provider(providers, fake, cls)
        /\ UNCHANGED <<fs, cloud, draws, last, ncalls, modules>>

FakerCommit(call, out) ==
    /\ FreshIn(out.filename, Medium(out.storage, fs, cloud))
    /\ FirstFresh(out.filename, Medium(out.storage, fs, cloud))
    /\ fs' = out.fs
    /\ cloud' = out.cloud
    /\ draws' = out.draws
    /\ last' = call
    /\ ncalls' = ncalls + 1
    /\ UNCHANGED <<modules, providers>>

\* test_faker: getattr(fake, method_name)(storage=storage)
CallThroughFaker ==
    /\ ncalls < MaxFakerCalls
    /\ \E fake \in Fakes, method \in Methods, storage \in FakerStorageArgs, s \in Stems :
          LET cls == getattr(providers, fake, method)
          IN /\ cls # Absent
             /\ \E out \in { provider_method(cls, fake, storage, Env(s, 1, "ok", "ok", "ok"),
                                             fs, cloud, draws) } :
                   FakerCommit(FakerCall("faker", fake, method, storage, cls, out), out)

\* test_standalone_providers: getattr(provider(fake), method_name)(storage=storage)
CallStandalone ==
    /\ ncalls < MaxFakerCalls
    /\ \E fake \in Fakes, cls \in ProviderClasses, storage \in FakerStorageArgs, s \in Stems :
          \E method \in { m \in Methods : Defines(cls, m) } :
             \E out \in { provider_method(cls, fake, storage, Env(s, 1, "ok", "ok", "ok"),
                                          fs, cloud, draws) } :
                FakerCommit(FakerCall("standalone", fake, method, storage, cls, out), out)

FakerNext == AddProvider \/ CallThroughFaker \/ CallStandalone

FakerSpec == FakerInit /\ [][FakerNext]_vars

\* C19: a provider method called through a Faker instance after add_provider
\* and the same method called on a provider instance of its own behave the
\* same: with the same storage, each returns a path that exists in that
\* storage (the default one for None), however often the class was added
C19_FakerAndStandaloneReturnExistingPath ==
    last.route \in {"faker", "standalone"}
        => /\ last.exc = None
           /\ last.ret.kind = "StringValue"
           /\ exists(StorageOrDefault(last.storage), last.ret.path, fs, cloud)

\* The extension each provider method's files are to have
ExpectedExtension(method) ==
    CASE method = "ico_file" -> "ico"
      [] method = "svg_file" -> "svg"
      [] method = "jpeg_file" -> "jpg"
      [] method = "graphic_jpeg_file" -> "jpg"
      [] method = "webp_file" -> "webp"
      [] method = "ods_file" -> "ods"

\* C20: the file a provider method generates has the provider's extension:
\* ico_file and svg_file ask for both the destination and the temporary
\* filename with "ico" and "svg"; jpeg_file, graphic_jpeg_file, webp_file and
\* ods_file name their files "jpg", "jpg", "webp" and "ods"; the file written
\* and the path returned bear that extension
C20_FileHasProviderExtension ==
    last.op \in Methods
        => /\ last.filename.name.ext = ExpectedExtension(last.op)
           /\ last.op \in {"ico_file", "svg_file"}
                => last.tmp_filename.name.ext = ExpectedExtension(last.op)
           /\ last.exc = None
                => /\ last.ret.path.name.ext = ExpectedExtension(last.op)
                   /\ last.filename \in DOMAIN Medium(last.used, fs, cloud)
                   /\ Medium(last.used, fs, cloud)[last.filename].fmt
                         = ExpectedExtension(last.op)

C20_Witness ==
    /\ last.op = "svg_file"
    /\ last.route = "faker"
    /\ last.exc = None
    /\ last.filename.name.ext = "svg"
    /\ last.tmp_filename.name.ext = "svg"
    /\ last.filename \in DOMAIN fs

\* ------------------------------------------------------------ failing calls
MaxFailureCalls == 1

\* What the environment can decide for a call of ico_file or svg_file: every
\* statement that can raise does or does not, the first that does ends the call
FailureEnvs ==
    { e \in { Env(s, t, c, r, w) : s \in Stems, t \in Stems, c \in {"ok", ConverterError},
                r \in {"ok", ReadError}, w \in {"ok", WriteError, PartialWrite} } :
        OneFailure(e) }

\* A call and what the environment decided for it
FailureCall(op, self, storage, content, env, out) ==
    [op |-> op, self |-> self, storage |-> storage, content |-> content, env |-> env,
     exc |-> out.exc, ret |-> out.ret, events |-> out.events, filename |-> out.filename,
     tmp_filename |-> out.tmp_filename, used |-> out.storage]
NoFailureCall ==
    [op |-> None, self |-> None, storage |-> NoStorage, content |-> NoContent,
     env |-> Env(1, 1, "ok", "ok", "ok"), exc |-> None, ret |-> NoRet, events |-> <<>>,
     filename |-> NoPath, tmp_filename |-> NoPath, used |-> NoStorage]

FailureInit ==
    /\ fs = <<>>
    /\ cloud = <<>>
    /\ draws = [g \in Generators |-> 0]
    /\ last = NoFailureCall
    /\ ncalls = 0
    /\ modules = ImportedModules
    /\ providers = NoProviders

FailureCommit(call, out) ==
    /\ FreshIn(out.filename, Medium(out.storage, fs, cloud))
    /\ FirstFresh(out.filename, Medium(out.storage, fs, cloud))
    /\ FreshIn(out.tmp_filename, fs)
    /\ FirstFresh(out.tmp_filename, fs)
    /\ fs' = out.fs
    /\ cloud' = out.cloud
    /\ draws' = out.draws
    /\ last' = call
    /\ ncalls' = ncalls + 1
    /\ UNCHANGED <<modules, providers>>

IcoFileFailing ==
    /\ ncalls < MaxFailureCalls
    /\ \E self \in Selfs, storage \in StorageArgs \cup {MEDIA_FS_STORAGE} :
        \E content \in ContentArgs, env \in FailureEnvs :
          \E out \in { ico_file(self, storage, None, content, env, fs, cloud, draws) } :
              FailureCommit(FailureCall("ico_file", self, storage, content, env, out), out)

SvgFileFailing ==
    /\ ncalls < MaxFailureCalls
    /\ \E self \in Selfs, storage \in StorageArgs \cup {MEDIA_FS_STORAGE} :
        \E content \in ContentArgs, env \in FailureEnvs :
          \E out \in { svg_file(self, storage, None, content, env, fs, cloud, draws) } :
              FailureCommit(FailureCall("svg_file", self, storage, content, env, out), out)

FailureNext == IcoFileFailing \/ SvgFileFailing

FailureSpec == FailureInit /\ [][FailureNext]_vars

\* C21: on every way out of ico_file and svg_file, returning or raising, the
\* temporary local file of the call no longer exists
C21_TemporaryFileGoneOnEveryExit ==
    last.op \in {"ico_file", "svg_file"} => last.tmp_filename \notin DOMAIN fs

\* C23: when ico_file or svg_file ends by raising, the destination storage is
\* as it was before the call: no file of the destination name exists in it
C23_FailedCallLeavesStorageUntouched ==
    (last.op \in {"ico_file", "svg_file"} /\ last.exc # None)
        => last.filename \notin DOMAIN Medium(last.used, fs, cloud)

\* The steps of ico_file and svg_file, in the order of the code
HtmlImageSteps ==
    <<"generate_filename", "generate_temporary_local_filename", "_generate_text_content",
      "from_string", "read", "write_bytes", "remove", "return">>

\* C24: the steps of one call of ico_file or svg_file happen in the order
\* destination name, temporary name, text content, converter, read, write to
\* storage, removal of the temporary file, return (a call that raises ends
\* part of the way); the bytes written to storage are the bytes the converter
\* wrote, and the temporary file is not removed before it has been read
C24_StepsInOrder ==
    last.op \in {"ico_file", "svg_file"}
        => /\ Len(last.events) <= Len(HtmlImageSteps)
           /\ \A i \in 1..Len(last.events) : last.events[i] = HtmlImageSteps[i]
           /\ (last.exc = None) <=> (last.events = HtmlImageSteps)
           /\ \A i, j \in 1..Len(last.events) :
                 (last.events[i] = "remove" /\ last.events[j] = "read") => j < i
           /\ last.exc = None
                => Medium(last.used, fs, cloud)[last.filename]
                     = Bytes(last.filename.name.ext, last.ret.data_content)

C24_Witness ==
    /\ last.op = "svg_file"
    /\ last.used = PATHY_FS_STORAGE
    /\ last.exc = None
    /\ last.events = HtmlImageSteps
    /\ cloud[last.filename].fmt = "svg"

C22_OdsContentFromProvidersGenerator ==
    (Returned /\ last.op = "ods_file" /\ last.content = NoContent)
        => /\ last.ret.data_content.kind = "json"
           /\ last.ret.data_content.locale = Locale(last.self)
           /\ draws[last.self] > 0

\* C28 as stated: ods_file with content None uses the caller's data_columns
\* whenever one is given, an empty mapping included (passed on as given), and
\* the default columns only when data_columns is None
C28_DataColumnsUsedWheneverGiven ==
    (Returned /\ last.op = "ods_file" /\ last.content = NoContent)
        => last.ret.data_content.cols
             = IF last.data_columns = None THEN "default" ELSE last.data_columns

\* C28 amended: ods_file with content None uses the caller's data_columns
\* when a non-empty one is given, and the default columns (name, residency)
\* when data_columns is None or empty
C28_DataColumnsUsedWhenNotEmpty ==
    (Returned /\ last.op = "ods_file" /\ last.content = NoContent)
        => last.ret.data_content.cols
             = IF last.data_columns \in {None, "empty"} THEN "default" ELSE last.data_columns

C28_Witness ==
    /\ last.op = "ods_file"
    /\ last.content = NoContent
    /\ last.data_columns = "empty"
    /\ last.exc = None
    /\ last.ret.data_content.cols = "default"

\* C29: the data content of the value ico_file and svg_file return is the
\* text rendered into the file (generated, or the template with its elements
\* replaced), not the content argument as passed; for ods_file it is the
\* content loaded into the dataset the file was exported from
C29_DataContentIsWhatWasRendered ==
    (Returned /\ last.op \in {"ico_file", "svg_file", "ods_file"})
        => /\ last.filename \in DOMAIN fs
           /\ fs[last.filename].of = last.ret.data_content
           /\ last.content.kind \in {None, "template"}
                => /\ last.ret.data_content # last.content
                   /\ last.ret.data_content.kind \in {"text", "json"}
           /\ last.content.kind \notin {None, "template"}
                => last.ret.data_content = last.content

C29_Witness ==
    /\ last.op = "ico_file"
    /\ last.content = TemplateContent
    /\ last.exc = None
    /\ last.ret.data_content.kind = "text"
    /\ fs[last.filename].of = last.ret.data_content

\* ------------------------------------------------------------ reportlab snippets
MaxSnippets == 2
MaxRows == 2
MaxCols == 2
DefaultRows == 3
DefaultCols == 4
PictureSize == 400

\* kwargs.get(key, default)
kwargs_get(kwargs, key, default) == IF key \in DOMAIN kwargs THEN kwargs[key] ELSE default

\* A cell of a table: the i-th header, or the n-th word drawn from a generator
Cell(kind, n) == [kind |-> kind, n |-> n]

\* An element of story: Table(table_data), Image(stream) with its width and
\* height, PageBreak() or Paragraph(content, style)
Element(kind, table, image, text, width, height) ==
    [kind |-> kind, table |-> table, image |-> image, text |-> text,
     width |-> width, height |-> height]

\* What a snippet leaves behind: story, data and counter as they are after
\* it, the generators' draws, and the exception it ended with
Applied(story, data, counter, drw, exc) ==
    [story |-> story, data |-> data, counter |-> counter, draws |-> drw, exc |-> exc]

\* add_table(provider, generator, story, data, counter, **kwargs)
add_table_without_headers(provider, generator, story, data, counter, kwargs, drw) ==
    LET rows == kwargs_get(kwargs, "rows", DefaultRows)
        cols == kwargs_get(kwargs, "cols", DefaultCols)
        table_data == [r \in 1..rows |->
                         [c \in 1..cols |-> Cell("word", drw[provider] + (r - 1) * cols + c)]]
    IN Applied(Append(story, Element("Table", table_data, NoBytes, NoContent, 0, 0)),
               data, counter, [drw EXCEPT ![provider] = @ + rows * cols], None)
add_table(provider, generator, story, data, counter, kwargs, drw) ==
    LET rows == kwargs_get(kwargs, "rows", DefaultRows)
        cols == kwargs_get(kwargs, "cols", DefaultCols)
        headers == [i \in 1..cols |-> Cell("header", i)]
        words == [r \in 1..rows |->
                    [c \in 1..cols |-> Cell("word", drw[provider] + (r - 1) * cols + c)]]
        table_data == <<headers>> \o words
    IN Applied(Append(story, Element("Table", table_data, NoBytes, NoContent, 0, 0)),
               data, counter, [drw EXCEPT ![provider] = @ + rows * cols], None)

\* add_picture(provider, generator, story, data, counter, **kwargs): a JPEG
\* made by JpegFileProvider(provider.generator).jpeg_file(raw=True), resized
add_picture(provider, generator, story, data, counter, kwargs, env, fsys, cld, drw) ==
    LET jpeg == jpeg_file(provider, NoStorage, None, None, NoContent, DEFAULT_FORMAT_FUNC,
                          TRUE, env, fsys, cld, drw)
    IN IF jpeg.exc # None THEN Applied(story, data, counter, jpeg.draws, jpeg.exc)
       ELSE Applied(Append(story, Element("Image", <<>>, jpeg.ret.bytes, NoContent,
                                          PictureSize, PictureSize)),
                    data, counter, jpeg.draws, None)

\* add_page_break(provider, generator, story, data, counter, **kwargs)
add_page_break_twice(provider, generator, story, data, counter, kwargs, drw) ==
    Applied(story \o << Element("PageBreak", <<>>, NoBytes, NoContent, 0, 0),
                        Element("PageBreak", <<>>, NoBytes, NoContent, 0, 0) >>,
            data, counter, drw, None)
add_page_break(provider, generator, story, data, counter, kwargs, drw) ==
    Applied(Append(story, Element("PageBreak", <<>>, NoBytes, NoContent, 0, 0)),
            data, counter, drw, None)

\* add_paragraph(provider, generator, story, data, counter, **kwargs): a text
\* drawn from provider.generator, in the generator's font
add_paragraph(provider, generator, story, data, counter, kwargs, drw) ==
    LET content == Content("text", None, Locale(provider), drw[provider] + 1, None, 0)
    IN Applied(Append(story, Element("Paragraph", <<>>, NoBytes, content, 0, 0)),
               data, counter, [drw EXCEPT ![provider] = @ + 1], None)

\* The kwargs add_table is drawn with: rows and cols given or not
NoSnippetKwargs == <<>>
TableKwargs ==
    {NoSnippetKwargs}
    \cup { [rows |-> r] : r \in 0..MaxRows }
    \cup { [cols |-> c] : c \in 1..MaxCols }
    \cup { [rows |-> r, cols |-> c] : r \in 0..MaxRows, c \in 1..MaxCols }

\* One step of the generator's loop over a dynamic template,
\* for counter, (func, kwargs) in enumerate(template): func(provider, generator,
\* story, data, counter, **kwargs): what was passed, what the snippet left,
\* and the snippets applied so far
SnippetCall(op, provider, kwargs, story, data, counter, template, out) ==
    [op |-> op, provider |-> provider, kwargs |-> kwargs,
     story_before |-> story, data_before |-> data, counter_before |-> counter,
     story |-> out.story, data |-> out.data, counter |-> out.counter,
     template |-> IF out.exc = None THEN Append(template, op) ELSE template,
     exc |-> out.exc]
NoSnippetCall ==
    [op |-> None, provider |-> None, kwargs |-> NoSnippetKwargs,
     story_before |-> <<>>, data_before |-> <<>>, counter_before |-> 0,
     story |-> <<>>, data |-> <<>>, counter |-> 0, template |-> <<>>, exc |-> None]

SnippetInit ==
    /\ fs = <<>>
    /\ cloud = <<>>
    /\ draws = [g \in Generators |-> 0]
    /\ last = NoSnippetCall
    /\ ncalls = 0
    /\ modules = ImportedModules
    /\ providers = NoProviders

\* The loop goes on while no snippet has raised
SnippetCommit(op, provider, kwargs, out) ==
    /\ draws' = out.draws
    /\ last' = SnippetCall(op, provider, kwargs, last.story, last.data, ncalls,
                           last.template, out)
    /\ ncalls' = ncalls + 1
    /\ UNCHANGED <<fs, cloud, modules, providers>>

AddTable ==
    /\ ncalls < MaxSnippets /\ last.exc = None
    /\ \E provider \in Selfs, kwargs \in TableKwargs :
          \E out \in { add_table(provider, ReportlabPdfGenerator, last.story, last.data,
                                 ncalls, kwargs, draws) } :
              SnippetCommit("add_table", provider, kwargs, out)

AddPicture ==
    /\ ncalls < MaxSnippets /\ last.exc = None
    /\ \E provider \in Selfs, conv \in {"ok", ConverterError} :
          \E out \in { add_picture(provider, ReportlabPdfGenerator, last.story, last.data,
                                   ncalls, NoSnippetKwargs, Env(1, 1, conv, "ok", "ok"),
                                   fs, cloud, draws) } :
              SnippetCommit("add_picture", provider, NoSnippetKwargs, out)

AddPageBreak ==
    /\ ncalls < MaxSnippets /\ last.exc = None
    /\ \E provider \in Selfs :
          \E out \in { add_page_break(provider, ReportlabPdfGenerator, last.story, last.data,
                                      ncalls, NoSnippetKwargs, draws) } :
              SnippetCommit("add_page_break", provider, NoSnippetKwargs, out)

AddParagraph ==
    /\ ncalls < MaxSnippets /\ last.exc = None
    /\ \E provider \in Selfs :
          \E out \in { add_paragraph(provider, ReportlabPdfGenerator, last.story, last.data,
                                     ncalls, NoSnippetKwargs, draws) } :
              SnippetCommit("add_paragraph", provider, NoSnippetKwargs, out)

SnippetNext == AddTable \/ AddPicture \/ AddPageBreak \/ AddParagraph

SnippetSpec == SnippetInit /\ [][SnippetNext]_vars

\* The element each snippet makes
ElementKind(op) ==
    CASE op = "add_table" -> "Table"
      [] op = "add_picture" -> "Image"
      [] op = "add_page_break" -> "PageBreak"
      [] op = "add_paragraph" -> "Paragraph"

\* C26: a reportlab snippet that returns has appended exactly one element to
\* the end of story, changed no element already in it, and changed neither
\* data nor counter; after the n snippets of a template have been applied in
\* order, story holds n elements more, in the order of the template
C26_SnippetAppendsOneElement ==
    (last.op \in {"add_table", "add_picture", "add_page_break", "add_paragraph"}
     /\ last.exc = None)
        => /\ Len(last.story) = Len(last.story_before) + 1
           /\ SubSeq(last.story, 1, Len(last.story_before)) = last.story_before
           /\ last.story[Len(last.story)].kind = ElementKind(last.op)
           /\ last.data = last.data_before
           /\ last.counter = last.counter_before
           /\ Len(last.story) = Len(last.template)
           /\ \A i \in 1..Len(last.template) :
                 last.story[i].kind = ElementKind(last.template[i])

C26_Witness ==
    /\ last.op = "add_page_break"
    /\ last.template = <<"add_table", "add_page_break">>
    /\ Len(last.story) = 2
    /\ last.story[1].kind = "Table"
    /\ last.story[2].kind = "PageBreak"

\* C27: the table add_table appends has rows + 1 rows of cols cells each, the
\* first being the headers "Header 1" to "Header <cols>" and the others
\* generated words; rows and cols are 3 and 4 when not given in kwargs, and
\* with rows = 0 the table holds the header row only
C27_TableHasHeaderRowAndRows ==
    (last.op = "add_table" /\ last.exc = None)
        => LET rows == IF "rows" \in DOMAIN last.kwargs THEN last.kwargs["rows"] ELSE 3
               cols == IF "cols" \in DOMAIN last.kwargs THEN last.kwargs["cols"] ELSE 4
               table == last.story[Len(last.story)].table
           IN /\ Len(table) = rows + 1
              /\ \A r \in 1..Len(table) : Len(table[r]) = cols
              /\ \A c \in 1..cols : table[1][c] = Cell("header", c)
              /\ \A r \in 2..Len(table) : \A c \in 1..cols : table[r][c].kind = "word"
              /\ rows = 0 => table = << [c \in 1..cols |-> Cell("header", c)] >>

C27_Witness ==
    /\ last.op = "add_table"
    /\ last.kwargs = [rows |-> 0]
    /\ last.exc = None
    /\ Len(last.story[Len(last.story)].table) = 1
    /\ Len(last.story[Len(last.story)].table[1]) = 4

====
